---------------------------- MODULE Spec2Model ----------------------------
(***************************************************************************)
(* Taskify: the focus timer of FocusMode (CalendarMonthView.tsx 625-688)   *)
(* and the task / goal store of App (README.md 153-277).                   *)
(*                                                                         *)
(* The focus timer is React state (four useState cells) driven by three    *)
(* click handlers, one setInterval callback and one useEffect.  The effect *)
(* does not run inside the handler that changed a dependency: React runs   *)
(* it after the render that follows, so it is an action of its own, and    *)
(* effectPending says that a render whose dependencies changed still       *)
(* waits for it.  The interval created by the effect stays registered      *)
(* until the next run of the effect clears it.                             *)
(***************************************************************************)
EXTENDS Integers, Sequences, FiniteSets, TLC

VARIABLES
    \* ---- FocusMode (CalendarMonthView.tsx 630-633)
    pomodoroTime,         \* seconds remaining
    isRunning,
    isBreak,
    completedPomodoros,
    interval,             \* TRUE while a setInterval of the effect is registered
    effectPending,        \* TRUE while a changed dependency waits for the effect
    \* ---- history of the timer, read only by the properties
    timerOp,              \* the timer step taken last
    phaseChanges,         \* number of Focus<->Break changes so far
    run,                  \* "fresh" | "clean" | "spoiled": see TimerHistory
    ticks,                \* ticks of the clean run
    \* ---- App (README.md 154-155) and its clock
    tasks,                \* sequence of Task records, in array order
    goals,                \* sequence of Goal records, in array order
    \* ---- history of the store, read only by the properties
    storeOp,              \* the store operation called last and its id
    \* ---- App (README.md 157-199): the rest of its state and its effects
    darkMode,
    streak,
    storage,              \* localStorage: the items under the calendar-* keys
    phase,                \* "initial" | "mounted" | "remounted" | "ready" | "crashed"
    queued,               \* state updates queued by effects, applied by the next render
    changed,              \* state cells changed since the effects last ran
    clock,                \* what new Date() returns: local day and hour, time zone
    \* ---- history of the App, read only by the properties
    persisted,            \* the storage as it was when the App started
    \* ---- the open view (CalendarMonthView.tsx)
    startDate,            \* TaskListView: the "From" filter, <<d>> or <<>> for ''
    endDate,              \* TaskListView: the "To" filter, <<d>> or <<>> for ''
    searchQuery,          \* TaskListView: the search box, a sequence of characters
    view,                 \* what the open view rendered last
    modal                 \* TaskModal: whether it is open, the task it edits, its form

timerVars == <<pomodoroTime, isRunning, isBreak, completedPomodoros,
               interval, effectPending, timerOp, phaseChanges, run, ticks>>

storeVars == <<tasks, goals, storeOp>>

appVars == <<darkMode, streak, storage, phase, queued, changed, clock, persisted>>

viewVars == <<startDate, endDate, searchQuery, view, modal>>

vars == <<timerVars, storeVars, appVars, viewVars>>

---------------------------------------------------------------------------
(* Program constants *)

\* useState(25 * 60), setPomodoroTime(25 * 60)
FocusSeconds == 1500
\* setPomodoroTime(5 * 60)
BreakSeconds == 300

(* Bounds of the model *)

\* completed pomodoros counted before the model stops expiring Focus phases
MaxPomodoros == 2
\* ticks an interval that was not cleared yet may push pomodoroTime below 0
MaxOverrun == 2
\* tasks of the collection the focus queue is taken from
MaxQueue == 5
\* tasks of the collection the day cells of the calendar are taken from
MaxLoad == 4
\* tasks of the collection the list is sorted from
MaxOrder == 3
\* tasks of the collection the list is filtered from
MaxList == 3
\* tasks of the collection the day view is taken from
MaxDayTasks == 2

---------------------------------------------------------------------------
(* FocusMode: handlers, interval callback, effect *)

\* the dependency list [isRunning, pomodoroTime, isBreak] differs after the step
DepsChange == <<isRunning', pomodoroTime', isBreak'>> # <<isRunning, pomodoroTime, isBreak>>

\* isBreak ? 5 * 60 : 25 * 60
FullDuration(brk) == IF brk THEN BreakSeconds ELSE FocusSeconds

toggleTimer_ResetsTime ==
    /\ isRunning' = ~isRunning
    /\ pomodoroTime' = FullDuration(isBreak)
    /\ effectPending' = TRUE
    /\ UNCHANGED <<isBreak, completedPomodoros, interval>>

\* const toggleTimer = () => { setIsRunning(!isRunning); }
toggleTimer ==
    /\ isRunning' = ~isRunning
    /\ effectPending' = TRUE
    /\ UNCHANGED <<pomodoroTime, isBreak, completedPomodoros, interval>>

resetTimer_KeepsRunning ==
    /\ pomodoroTime' = FullDuration(isBreak)
    /\ UNCHANGED <<isRunning, isBreak, completedPomodoros, interval>>
    /\ effectPending' = (effectPending \/ DepsChange)

\* const resetTimer = () => { setIsRunning(false);
\*                            setPomodoroTime(isBreak ? 5 * 60 : 25 * 60); }
resetTimer ==
    /\ isRunning' = FALSE
    /\ pomodoroTime' = FullDuration(isBreak)
    /\ UNCHANGED <<isBreak, completedPomodoros, interval>>
    /\ effectPending' = (effectPending \/ DepsChange)

skipTimer_CountsAtOnce ==
    /\ pomodoroTime' = 0
    /\ completedPomodoros' = completedPomodoros + 1
    /\ UNCHANGED <<isRunning, isBreak, interval>>
    /\ effectPending' = (effectPending \/ DepsChange)

\* const skipTimer = () => { setPomodoroTime(0); }
skipTimer ==
    /\ pomodoroTime' = 0
    /\ UNCHANGED <<isRunning, isBreak, completedPomodoros, interval>>
    /\ effectPending' = (effectPending \/ DepsChange)

\* the interval callback: setPomodoroTime(prev => prev - 1).  It can run as
\* long as the interval is registered, whatever isRunning is by then.
tick ==
    /\ interval
    /\ pomodoroTime' = pomodoroTime - 1
    /\ effectPending' = TRUE
    /\ UNCHANGED <<isRunning, isBreak, completedPomodoros, interval>>

Expire_KeepsRunning(brk, count) ==
    [running |-> TRUE,
     time    |-> IF brk THEN FocusSeconds ELSE BreakSeconds,
     brk     |-> ~brk,
     count   |-> IF brk THEN count ELSE count + 1]

Expire_CountsBreak(brk, count) ==
    [running |-> FALSE,
     time    |-> IF brk THEN FocusSeconds ELSE BreakSeconds,
     brk     |-> ~brk,
     count   |-> count + 1]

\* the else-if branch of the effect (pomodoroTime === 0): the state it sets
Expire(brk, count) ==
    [running |-> FALSE,
     time    |-> IF brk THEN FocusSeconds ELSE BreakSeconds,
     brk     |-> ~brk,
     count   |-> IF brk THEN count ELSE count + 1]

\* useEffect(() => {...}, [isRunning, pomodoroTime, isBreak]): the cleanup of
\* the previous run (clearInterval) and then the body
timerEffect ==
    /\ effectPending
    /\ IF isRunning /\ pomodoroTime > 0
         THEN /\ interval' = TRUE
              /\ effectPending' = FALSE
              /\ UNCHANGED <<pomodoroTime, isRunning, isBreak, completedPomodoros>>
         ELSE IF pomodoroTime = 0
           THEN LET e == Expire(isBreak, completedPomodoros)
                IN  /\ interval' = FALSE
                    /\ isRunning' = e.running
                    /\ pomodoroTime' = e.time
                    /\ isBreak' = e.brk
                    /\ completedPomodoros' = e.count
                    /\ effectPending' = TRUE
           ELSE /\ interval' = FALSE
                /\ effectPending' = FALSE
                /\ UNCHANGED <<pomodoroTime, isRunning, isBreak, completedPomodoros>>

---------------------------------------------------------------------------
(* History of the timer.  run = "clean" from the press of start in the     *)
(* initial state for as long as no other button is pressed and at most     *)
(* FocusSeconds ticks have fired; ticks counts the ticks of that run.      *)

TimerHistory(op) ==
    /\ timerOp' = op
    /\ phaseChanges' = IF isBreak' # isBreak THEN phaseChanges + 1 ELSE phaseChanges
    /\ run' = CASE op = "effect" -> run
                [] op = "toggle" -> IF run = "fresh" THEN "clean" ELSE "spoiled"
                [] op = "tick"   -> IF run = "clean" /\ ticks = FocusSeconds
                                      THEN "spoiled" ELSE run
                [] OTHER         -> "spoiled"
    /\ ticks' = IF run' # "clean" THEN 0
                ELSE IF op = "tick" THEN ticks + 1 ELSE ticks

TimerStep(op) == TimerHistory(op) /\ UNCHANGED <<storeVars, appVars, viewVars>>

PressStartPause == toggleTimer /\ TimerStep("toggle")
PressReset      == resetTimer /\ TimerStep("reset")
PressSkip       == skipTimer /\ TimerStep("skip")
Tick            == pomodoroTime > -MaxOverrun /\ tick /\ TimerStep("tick")
RunEffect ==
    /\ (pomodoroTime = 0 /\ ~isBreak) => completedPomodoros < MaxPomodoros
    /\ timerEffect
    /\ TimerStep("effect")

---------------------------------------------------------------------------
(* App: the task and goal store (README.md 240-277) *)

(* Bounds of the store *)

\* TaskModal before it is first opened: taskModalOpen false, editingTask
\* null, and the form's useState cells title '', date '', dependencies []
Closed == [open |-> FALSE, task |-> <<>>, title |-> <<>>, date |-> <<>>,
           dependencies |-> {}]

\* tasks the store holds before the model stops adding
MaxTasks == 2
\* tasks of the collections the streak is computed from
MaxStreakTasks == 3
\* goals the store holds before the model stops adding
MaxGoals == 2
\* largest goal target entered
MaxTarget == 2

\* the calendar days tasks are dated on
Days       == {1, 2}
\* the values Date.now() returns (two calls may fall in the same millisecond)
Stamps     == {0, 1}
\* the values Math.random() returns
Randoms    == {1, 2}
\* every id the generator can produce
IdSpace    == Stamps \X Randoms

\* Date.now().toString() + Math.random().toString(36): the decimal timestamp
\* followed by "0.<digits>"; the single "." fixes where the timestamp ends,
\* so two ids are equal exactly when timestamp and random value both are
NewId(t, r) == <<t, r>>

Ids(xs) == {xs[i].id : i \in 1..Len(xs)}

\* { ...t, ...updates }: the fields of updates replace those of t
Merge(t, updates) ==
    [f \in DOMAIN t |-> IF f \in DOMAIN updates THEN updates[f] ELSE t[f]]

\* addTask: setTasks([...tasks, { ...task, id, createdAt }])
addTask(ts, task, t, r) ==
    Append(ts, [f \in DOMAIN task \cup {"id", "createdAt"} |->
                   IF f = "id" THEN NewId(t, r)
                   ELSE IF f = "createdAt" THEN t
                   ELSE task[f]])

updateTask_Appends(ts, id, updates) ==
    IF id \in Ids(ts)
      THEN [i \in 1..Len(ts) |-> IF ts[i].id = id THEN Merge(ts[i], updates) ELSE ts[i]]
      ELSE Append(ts, Merge([id |-> id, createdAt |-> 0, date |-> 1,
                             completed |-> FALSE, dependencies |-> {}], updates))

\* updateTask: tasks.map(t => (t.id === id ? { ...t, ...updates } : t))
updateTask(ts, id, updates) ==
    [i \in 1..Len(ts) |-> IF ts[i].id = id THEN Merge(ts[i], updates) ELSE ts[i]]

deleteTask_Cascades(ts, id) ==
    LET kept == SelectSeq(ts, LAMBDA t: t.id # id)
    IN  [i \in 1..Len(kept) |-> [kept[i] EXCEPT !.dependencies = @ \ {id}]]

\* deleteTask: tasks.filter(t => t.id !== id)
deleteTask(ts, id) == SelectSeq(ts, LAMBDA t: t.id # id)

toggleTaskComplete_SetsDone(ts, id) ==
    [i \in 1..Len(ts) |-> IF ts[i].id = id THEN [ts[i] EXCEPT !.completed = TRUE] ELSE ts[i]]

\* toggleTaskComplete: tasks.map(t => (t.id === id ? { ...t, completed: !t.completed } : t))
toggleTaskComplete(ts, id) ==
    [i \in 1..Len(ts) |-> IF ts[i].id = id THEN [ts[i] EXCEPT !.completed = ~@] ELSE ts[i]]

\* addGoal: setGoals([...goals, { ...goal, id }])
addGoal(gs, goal, t, r) ==
    Append(gs, [id |-> NewId(t, r), target |-> goal.target, current |-> goal.current])

\* updateGoal: goals.map(g => (g.id === id ? { ...g, ...updates } : g))
updateGoal(gs, id, updates) ==
    [i \in 1..Len(gs) |-> IF gs[i].id = id THEN Merge(gs[i], updates) ELSE gs[i]]

\* deleteGoal: goals.filter(g => g.id !== id)
deleteGoal(gs, id) == SelectSeq(gs, LAMBDA g: g.id # id)

---------------------------------------------------------------------------
(* Array.prototype.sort *)

\* xs.sort(compareFn), the stable sort of ES2019: the elements are inserted
\* in array order, each before the first one that compares greater.  cmp
\* holds what compareFn returns: cmp[i][j] for the call (xs[i], xs[j]).
ArraySort(xs, cmp) ==
    LET RECURSIVE sorted(_)
        sorted(n) ==
            IF n = 0 THEN <<>>
            ELSE LET done    == sorted(n - 1)
                     greater == {j \in 1..Len(done) : cmp[done[j]][n] > 0}
                     at      == IF greater = {} THEN Len(done) + 1
                                ELSE CHOOSE j \in greater : \A k \in greater : j <= k
                 IN  SubSeq(done, 1, at - 1) \o <<n>> \o SubSeq(done, at, Len(done))
        order == sorted(Len(xs))
    IN  [k \in 1..Len(xs) |-> xs[order[k]]]

\* xs.slice(start, end) for 0 <= start <= end: the elements at the 0-based
\* indices start .. end - 1 that exist
slice(xs, start, end) ==
    LET last == IF end < Len(xs) THEN end ELSE Len(xs)
    IN  [n \in 1..(last - start) |-> xs[start + n]]

---------------------------------------------------------------------------
(* FocusMode: the focus queue (CalendarMonthView.tsx 634-641, 776-807) *)

\* const priorityOrder = { urgent: 0, high: 1, medium: 2, low: 3 }
priorityOrder == [urgent |-> 0, high |-> 1, medium |-> 2, low |-> 3]

Priorities == DOMAIN priorityOrder

\* (a, b) => priorityOrder[a.priority] - priorityOrder[b.priority]
comparePriority(a, b) == priorityOrder[a.priority] - priorityOrder[b.priority]

todayTasks_KeepsCompleted(ts, today) ==
    LET kept == SelectSeq(ts, LAMBDA t: t.date = today)
    IN  ArraySort(kept, [i \in 1..Len(kept) |->
                           [j \in 1..Len(kept) |-> comparePriority(kept[i], kept[j])]])

\* const todayTasks = tasks.filter(t => t.date === today && !t.completed).sort(...)
todayTasks(ts, today) ==
    LET kept == SelectSeq(ts, LAMBDA t: t.date = today /\ ~t.completed)
    IN  ArraySort(kept, [i \in 1..Len(kept) |->
                           [j \in 1..Len(kept) |-> comparePriority(kept[i], kept[j])]])

\* todayTasks.slice(1, 4): the cards under "Upcoming"
Upcoming(queue) == slice(queue, 1, 4)

\* what FocusMode renders of the queue: the "Next Up" card (todayTasks[0], if
\* any), the "Upcoming" cards and the number in "+ n more tasks"
FocusMode(ts, today) ==
    LET queue == todayTasks(ts, today)
    IN  [mode       |-> "focus",
         todayTasks |-> queue,
         nextUp     |-> slice(queue, 0, 1),
         upcoming   |-> Upcoming(queue),
         more       |-> IF Len(queue) > 4 THEN Len(queue) - 4 ELSE 0]

---------------------------------------------------------------------------
(* Strings: a string is the sequence of its characters; an optional string
   (Task.time, the value of a date input) is <<>> or <<value>> *)

\* s.toLowerCase()
toLowerCase(s) ==
    [i \in 1..Len(s) |-> CASE s[i] = "A" -> "a" [] s[i] = "B" -> "b" [] OTHER -> s[i]]

\* s.trim()
trim(s) ==
    LET inked == {i \in 1..Len(s) : s[i] # " "}
    IN  IF inked = {} THEN <<>>
        ELSE SubSeq(s, CHOOSE i \in inked : \A j \in inked : i <= j,
                       CHOOSE i \in inked : \A j \in inked : i >= j)

\* s.includes(q)
includes(s, q) ==
    \E k \in 0..(Len(s) - Len(q)) : \A n \in 1..Len(q) : s[k + n] = q[n]

\* a.localeCompare(b) for two dates YYYY-MM-DD or two times HH:MM, which
\* order as strings the way the days and the minutes they name do
localeCompare(a, b) == IF a < b THEN -1 ELSE IF a > b THEN 1 ELSE 0

---------------------------------------------------------------------------
(* TaskListView: filter, sort and grouping (CalendarMonthView.tsx 850-891) *)

filteredTasks_ExclusiveEnd(ts, from, to, text) ==
    LET byStart == IF from # <<>> THEN SelectSeq(ts, LAMBDA t: t.date >= from[1]) ELSE ts
        byEnd   == IF to # <<>> THEN SelectSeq(byStart, LAMBDA t: t.date < to[1]) ELSE byStart
        query   == toLowerCase(text)
    IN  IF trim(text) # <<>>
          THEN SelectSeq(byEnd, LAMBDA t: \/ includes(toLowerCase(t.title), query)
                                          \/ includes(toLowerCase(t.description), query))
          ELSE byEnd

\* filteredTasks before it is sorted: [...tasks] through the three filters,
\* each applied if its input is truthy; the query is lower-cased, not trimmed
filteredTasks(ts, from, to, text) ==
    LET byStart == IF from # <<>> THEN SelectSeq(ts, LAMBDA t: t.date >= from[1]) ELSE ts
        byEnd   == IF to # <<>> THEN SelectSeq(byStart, LAMBDA t: t.date <= to[1]) ELSE byStart
        query   == toLowerCase(text)
    IN  IF trim(text) # <<>>
          THEN SelectSeq(byEnd, LAMBDA t: \/ includes(toLowerCase(t.title), query)
                                          \/ includes(toLowerCase(t.description), query))
          ELSE byEnd

compareByDateAndTime_UntimedFirst(a, b) ==
    LET dateCompare == localeCompare(a.date, b.date)
    IN  IF dateCompare # 0 THEN dateCompare
        ELSE IF a.time # <<>> /\ b.time # <<>> THEN localeCompare(a.time[1], b.time[1])
        ELSE IF a.time # <<>> THEN 1
        ELSE IF b.time # <<>> THEN -1
        ELSE 0

\* the comparator of filteredTasks.sort
compareByDateAndTime(a, b) ==
    LET dateCompare == localeCompare(a.date, b.date)
    IN  IF dateCompare # 0 THEN dateCompare
        ELSE IF a.time # <<>> /\ b.time # <<>> THEN localeCompare(a.time[1], b.time[1])
        ELSE IF a.time # <<>> THEN -1
        ELSE IF b.time # <<>> THEN 1
        ELSE 0

\* the keys of tasksByDate in the order reduce inserts them: each date where
\* it first occurs in the sorted tasks
FirstDates(ts) ==
    LET firsts == SelectSeq([i \in 1..Len(ts) |-> i],
                            LAMBDA i: \A j \in 1..(i - 1) : ts[j].date # ts[i].date)
    IN  [n \in 1..Len(firsts) |-> ts[firsts[n]].date]

\* what TaskListView renders: the filtered tasks sorted, the dates of the
\* groups in order (groupedDates) and the tasks of each group (tasksByDate)
TaskListView(ts, from, to, text) ==
    LET kept   == filteredTasks(ts, from, to, text)
        sorted == ArraySort(kept, [i \in 1..Len(kept) |->
                    [j \in 1..Len(kept) |-> compareByDateAndTime(kept[i], kept[j])]])
        keys   == FirstDates(sorted)
    IN  [mode          |-> "list",
         filteredTasks |-> sorted,
         groupedDates  |-> ArraySort(keys, [i \in 1..Len(keys) |->
                             [j \in 1..Len(keys) |-> localeCompare(keys[i], keys[j])]]),
         tasksByDate   |-> [date \in {sorted[i].date : i \in 1..Len(sorted)} |->
                               SelectSeq(sorted, LAMBDA t: t.date = date)]]

---------------------------------------------------------------------------
(* CalendarMonthView: what a day cell shows *)

\* const dayTasks = tasks.filter(t => t.date === dateStr): the tasks a day cell
\* lists, and the ones getTaskLoad counts for it
DayTasks(ts, dateStr) == SelectSeq(ts, LAMBDA t: t.date = dateStr)

getTaskLoad_OneHigh(ts, date) ==
    LET dayTasks    == SelectSeq(ts, LAMBDA t: t.date = date)
        urgentCount == Len(SelectSeq(dayTasks, LAMBDA t: t.priority = "urgent"))
        highCount   == Len(SelectSeq(dayTasks, LAMBDA t: t.priority = "high"))
    IN  IF urgentCount > 0 THEN "urgent"
        ELSE IF highCount > 0 THEN "high"
        ELSE IF Len(dayTasks) > 3 THEN "medium"
        ELSE IF Len(dayTasks) > 0 THEN "low"
        ELSE "none"

\* getTaskLoad(date), over the tasks prop
getTaskLoad(ts, date) ==
    LET dayTasks    == SelectSeq(ts, LAMBDA t: t.date = date)
        urgentCount == Len(SelectSeq(dayTasks, LAMBDA t: t.priority = "urgent"))
        highCount   == Len(SelectSeq(dayTasks, LAMBDA t: t.priority = "high"))
    IN  IF urgentCount > 0 THEN "urgent"
        ELSE IF highCount > 1 THEN "high"
        ELSE IF Len(dayTasks) > 3 THEN "medium"
        ELSE IF Len(dayTasks) > 0 THEN "low"
        ELSE "none"

---------------------------------------------------------------------------
(* App: dates, the streak, localStorage and the effects (README.md 165-224) *)

\* the hours of the day new Date() is read at
Hours == {1, 12, 22}

\* time zones: the UTC offset in hours is `before` on the local days before
\* day `change` and `after` from that day on (a daylight-saving change)
Zones == { [before |-> 0, after |-> 0, change |-> 0],
           [before |-> 2, after |-> 1, change |-> -1],
           [before |-> 1, after |-> 2, change |-> -1],
           [before |-> -2, after |-> -1, change |-> -1] }

Offset(zone, day) == IF day < zone.change THEN zone.before ELSE zone.after

\* date.toISOString().split('T')[0] of the Date with local day `day` and local
\* hour `hour`: the UTC day of that instant (a date key, days numbered as the
\* keys "YYYY-MM-DD" are ordered)
ISODate(day, hour, zone) ==
    LET utcHour == hour - Offset(zone, day)
    IN  IF utcHour < 0 THEN day - 1 ELSE IF utcHour >= 24 THEN day + 1 ELSE day

\* calculateStreak: checkDate starts at new Date(); while the day of
\* checkDate.toISOString() has a completed task, currentStreak++ and
\* checkDate.setDate(checkDate.getDate() - 1), which steps one local day back
\* at the same local hour
calculateStreak(ts, clk) ==
    LET qualifies(n) ==
            \E i \in 1..Len(ts) :
                /\ ts[i].date = ISODate(clk.day - n, clk.hour, clk.zone)
                /\ ts[i].completed
        RECURSIVE count(_)
        count(n) == IF qualifies(n) THEN count(n + 1) ELSE n
    IN  count(0)

\* localStorage.getItem(key): null, or the text stored.  A text is kept as
\* the value JSON.parse gives for it, or as malformed when JSON.parse throws
Missing   == [kind |-> "missing", value |-> <<>>]
Malformed == [kind |-> "malformed", value |-> <<>>]

\* JSON.stringify(v), as the item localStorage.setItem stores
JSONstringify(v) == [kind |-> "json", value |-> v]

\* the keys read by the load effect with JSON.parse, in the order of lines 173-177
Keys == <<"tasks", "goals", "darkMode", "streak">>

\* JSON.parse throws in the load effect: some stored item is malformed
LoadThrows(st) == \E k \in 1..Len(Keys) : st[Keys[k]].kind = "malformed"

\* if (savedX) setX(JSON.parse(savedX)), for the keys in order
LoadUpdates(st) ==
    LET RECURSIVE from(_)
        from(k) == IF k > Len(Keys) THEN <<>>
                   ELSE IF st[Keys[k]].kind = "json"
                          THEN <<[cell |-> Keys[k], value |-> st[Keys[k]].value]>> \o from(k + 1)
                          ELSE from(k + 1)
    IN  from(1)

\* the state cells as the current render holds them
Cell(c) == CASE c = "tasks"    -> tasks
             [] c = "goals"    -> goals
             [] c = "darkMode" -> darkMode
             [] c = "streak"   -> streak

\* the five save effects: localStorage.setItem(key, JSON.stringify(cell)), here
\* for the cells in cs
Saved(st, cs) == [k \in DOMAIN st |-> IF k \in cs THEN JSONstringify(Cell(k)) ELSE st[k]]

\* the value a cell has once the queued updates are applied in order
Applied(c, us) ==
    LET RECURSIVE last(_)
        last(n) == IF n = 0 THEN Cell(c)
                   ELSE IF us[n].cell = c THEN us[n].value ELSE last(n - 1)
    IN  last(Len(us))

\* the effects of App at mount, in the order they are declared: the load
\* effect, the save effects (which see the state of the first render) and the
\* streak effect.  React's StrictMode runs the mount effects a second time
\* before the queued updates are rendered.  An exception in an effect leaves
\* the App unmounted.
MountEffects ==
    /\ phase \in {"initial", "mounted"}
    /\ IF LoadThrows(storage)
         THEN /\ phase' = "crashed"
              /\ UNCHANGED <<storage, queued, changed>>
         ELSE /\ phase' = IF phase = "initial" THEN "mounted" ELSE "remounted"
              /\ queued' = queued \o LoadUpdates(storage)
                                    \o <<[cell |-> "streak", value |-> calculateStreak(tasks, clock)]>>
              /\ changed' = {}
              /\ storage' = Saved(storage, DOMAIN storage)
    /\ UNCHANGED <<tasks, goals, darkMode, streak, clock, persisted, storeOp, timerVars, viewVars>>

\* the render that applies the queued queued.  An array from JSON.parse is a
\* new object, so the effects on [tasks] and [goals] become due; a boolean or
\* a number makes its effect due when the value differs
Rerender ==
    /\ phase \in {"mounted", "remounted", "ready"}
    /\ queued # <<>>
    /\ tasks' = Applied("tasks", queued)
    /\ goals' = Applied("goals", queued)
    /\ darkMode' = Applied("darkMode", queued)
    /\ streak' = Applied("streak", queued)
    /\ changed' = changed \cup {queued[n].cell : n \in {m \in 1..Len(queued) :
                                   \/ queued[m].cell \in {"tasks", "goals"}
                                   \/ Applied(queued[m].cell, queued) # Cell(queued[m].cell)}}
    /\ queued' = <<>>
    /\ phase' = "ready"
    /\ UNCHANGED <<storage, clock, persisted, storeOp, timerVars, viewVars>>

RunEffects_KeepsStreak ==
    /\ phase = "ready"
    /\ changed # {}
    /\ storage' = Saved(storage, changed)
    /\ changed' = {}
    /\ UNCHANGED <<tasks, goals, darkMode, streak, phase, queued, clock, persisted, storeOp, timerVars, viewVars>>

\* the effects that are due after a render: the save effect of every changed
\* cell and, when tasks changed, the streak effect with its setStreak
RunEffects ==
    /\ phase = "ready"
    /\ changed # {}
    /\ storage' = Saved(storage, changed)
    /\ queued' = IF "tasks" \in changed
                    THEN Append(queued, [cell |-> "streak", value |-> calculateStreak(tasks, clock)])
                    ELSE queued
    /\ changed' = {}
    /\ UNCHANGED <<tasks, goals, darkMode, streak, phase, clock, persisted, storeOp, timerVars, viewVars>>

\* nothing queued and no effect due: the last change has been processed
Settled == phase = "ready" /\ queued = <<>> /\ changed = {}

\* midnight passes: new Date() is on the next local day
DayPasses ==
    /\ clock.day + 1 \in Days
    /\ clock' = [clock EXCEPT !.day = @ + 1]
    /\ UNCHANGED <<darkMode, streak, storage, phase, queued, changed, persisted,
                   storeVars, timerVars, viewVars>>

\* the id of the i-th task of a persisted collection
IdOf(i) == NewId(i, 1)

\* the task collections an earlier session may have persisted
TaskSnapshots ==
    UNION { { [i \in 1..n |-> [id |-> IdOf(i), createdAt |-> IdOf(i)[1],
                               date |-> f[i].date, completed |-> f[i].completed,
                               dependencies |-> {}]] :
              f \in [1..n -> [date : Days, completed : BOOLEAN]] } : n \in 0..MaxTasks }

\* the days tasks of the recent past are dated on, today being about day 0
StreakDays == -4..1

\* what localStorage may hold when the App starts
StoredStates ==
    [tasks    : {Missing, Malformed} \cup {JSONstringify(ts) : ts \in TaskSnapshots},
     goals    : {Missing, Malformed, JSONstringify(<<>>)},
     darkMode : {Missing, Malformed, JSONstringify(TRUE)},
     streak   : {Missing, Malformed, JSONstringify(1)}]

---------------------------------------------------------------------------
(* The calls the components make into the store *)

\* the payload TaskModal.handleSave passes to onSave.  Its dependency select
\* offers the tasks other than the edited one (availableTasks).  linked says
\* whether the user picks dependencies (then the date field is left at day 1)
\* or leaves the select alone (then any day is entered).
SavePayloads(self, linked) ==
    IF linked
      THEN [date : {1}, completed : BOOLEAN,
            dependencies : {D \in SUBSET (Ids(tasks) \ self) : Cardinality(D) <= 1}]
      ELSE [date : Days, completed : BOOLEAN, dependencies : {{}}]

\* every task operation ends in setTasks(...): the effects on [tasks] are due
TasksSet ==
    /\ changed' = changed \cup {"tasks"}
    /\ UNCHANGED <<darkMode, streak, storage, phase, queued, clock, persisted, viewVars>>

\* every goal operation ends in setGoals(...): the effect on [goals] is due
GoalsSet ==
    /\ changed' = changed \cup {"goals"}
    /\ UNCHANGED <<darkMode, streak, storage, phase, queued, clock, persisted, viewVars>>

StoreStep(op, id) ==
    /\ storeOp' = [op |-> op, id |-> id, hit |-> id \in Ids(tasks)]
    /\ TasksSet
    /\ UNCHANGED timerVars

\* handleSaveTask without editingTask: onAddTask(task)
AddTask(linked) ==
    /\ Len(tasks) < MaxTasks
    /\ \E task \in SavePayloads({}, linked), t \in Stamps, r \in Randoms :
          /\ task.completed = FALSE
          /\ tasks' = addTask(tasks, task, t, r)
          /\ StoreStep("add", NewId(t, r))
    /\ UNCHANGED goals

\* handleSaveTask with editingTask: onUpdateTask(editingTask.id, task)
SaveTask(linked) ==
    /\ \E id \in IdSpace : \E task \in SavePayloads({id}, linked) :
          /\ tasks' = updateTask(tasks, id, task)
          /\ StoreStep("update", id)
    /\ UNCHANGED goals

DropTask_Uncompletes ==
    /\ \E id \in IdSpace, d \in Days :
          /\ tasks' = updateTask(tasks, id, [date |-> d, completed |-> FALSE])
          /\ storeOp' = [op |-> "drop", id |-> id, hit |-> id \in Ids(tasks), date |-> d]
    /\ TasksSet
    /\ UNCHANGED <<goals, timerVars>>

\* CalendarDay useDrop: onTaskDrop(item.taskId, dateStr), that is
\* handleTaskDrop: onUpdateTask(taskId, { date: newDate })
DropTask ==
    /\ \E id \in IdSpace, d \in Days :
          /\ tasks' = updateTask(tasks, id, [date |-> d])
          /\ storeOp' = [op |-> "drop", id |-> id, hit |-> id \in Ids(tasks), date |-> d]
    /\ TasksSet
    /\ UNCHANGED <<goals, timerVars>>

\* onDeleteTask(task.id)
DeleteTask ==
    /\ \E id \in IdSpace :
          /\ tasks' = deleteTask(tasks, id)
          /\ StoreStep("delete", id)
    /\ UNCHANGED goals

\* onToggleComplete(task.id)
ToggleTask ==
    /\ \E id \in IdSpace :
          /\ tasks' = toggleTaskComplete(tasks, id)
          /\ StoreStep("toggle", id)
    /\ UNCHANGED goals

\* handleAddGoal: onAddGoal({ title, target: parseInt(target), current: 0, ... })
\* after the check parseInt(target) > 0
AddGoal ==
    /\ Len(goals) < MaxGoals
    /\ \E target \in 1..MaxTarget, t \in Stamps, r \in Randoms :
          /\ goals' = addGoal(goals, [target |-> target, current |-> 0], t, r)
          /\ storeOp' = [op |-> "addGoal", id |-> NewId(t, r), hit |-> NewId(t, r) \in Ids(goals)]
    /\ UNCHANGED <<tasks, timerVars>>
    /\ GoalsSet

\* incrementGoal: goals.find(g => g.id === id), then current + 1 below target
IncrementGoal ==
    /\ \E id \in IdSpace :
          /\ LET found == {i \in 1..Len(goals) : goals[i].id = id}
                 goal  == goals[CHOOSE i \in found : \A j \in found : i <= j]
             IN  IF found # {} /\ goal.current < goal.target
                   THEN /\ goals' = updateGoal(goals, id, [current |-> goal.current + 1])
                        /\ GoalsSet
                   ELSE UNCHANGED <<goals, appVars, viewVars>>
          /\ storeOp' = [op |-> "incrementGoal", id |-> id, hit |-> id \in Ids(goals)]
    /\ UNCHANGED <<tasks, timerVars>>

\* decrementGoal: goals.find(g => g.id === id), then current - 1 above 0
DecrementGoal ==
    /\ \E id \in IdSpace :
          /\ LET found == {i \in 1..Len(goals) : goals[i].id = id}
                 goal  == goals[CHOOSE i \in found : \A j \in found : i <= j]
             IN  IF found # {} /\ goal.current > 0
                   THEN /\ goals' = updateGoal(goals, id, [current |-> goal.current - 1])
                        /\ GoalsSet
                   ELSE UNCHANGED <<goals, appVars, viewVars>>
          /\ storeOp' = [op |-> "decrementGoal", id |-> id, hit |-> id \in Ids(goals)]
    /\ UNCHANGED <<tasks, timerVars>>

\* onDeleteGoal(goal.id)
DeleteGoal ==
    /\ \E id \in IdSpace :
          /\ goals' = deleteGoal(goals, id)
          /\ storeOp' = [op |-> "deleteGoal", id |-> id, hit |-> id \in Ids(goals)]
    /\ UNCHANGED <<tasks, timerVars>>
    /\ GoalsSet

---------------------------------------------------------------------------
(* The calls FocusMode makes, and its next render *)

\* const today = new Date().toISOString().split('T')[0]
Today == ISODate(clock.day, clock.hour, clock.zone)

\* onToggleComplete(id) from a card of FocusMode, which renders again over
\* the new tasks; card is "nextUp" or "upcoming", second the id that stood
\* second in the queue (<<>> when none did)
ToggleShown(card, id) ==
    /\ tasks' = toggleTaskComplete(tasks, id)
    /\ storeOp' = [op |-> card, id |-> id, hit |-> id \in Ids(tasks),
                   second |-> [n \in 1..Len(slice(view.todayTasks, 1, 2)) |->
                                  view.todayTasks[n + 1].id]]
    /\ view' = FocusMode(tasks', Today)
    /\ changed' = changed \cup {"tasks"}
    /\ UNCHANGED <<goals, darkMode, streak, storage, phase, queued, clock, persisted,
                   startDate, endDate, searchQuery, modal, timerVars>>

\* the "Next Up" card: onToggleComplete(todayTasks[0].id)
CompleteNextUp ==
    /\ view.mode = "focus"
    /\ view.nextUp # <<>>
    /\ ToggleShown("nextUp", view.nextUp[1].id)

\* an "Upcoming" card: onToggleComplete(task.id)
CompleteUpcoming ==
    /\ view.mode = "focus"
    /\ \E n \in 1..Len(view.upcoming) : ToggleShown("upcoming", view.upcoming[n].id)

---------------------------------------------------------------------------
(* CalendarMonthView: the day cells (CalendarMonthView.tsx 244-266) *)

\* what CalendarMonthView renders of the day cells: for the cell numbered day
\* the key dateStr = new Date(year, month, day).toISOString().split('T')[0]
\* (the Date is the local midnight of the day), the tasks handed to
\* CalendarDay, the cards it shows (tasks.slice(0, 3)) and the taskLoad that
\* picks the heatmap colour
CalendarMonthView(ts, selectedDate, zone) ==
    [mode         |-> "calendar",
     selectedDate |-> selectedDate,
     cells        |-> [day \in Days |->
                         LET dateStr == ISODate(day, 0, zone)
                         IN  [dateStr  |-> dateStr,
                              tasks    |-> DayTasks(ts, dateStr),
                              cards    |-> slice(DayTasks(ts, dateStr), 0, 3),
                              taskLoad |-> getTaskLoad(ts, dateStr)]]]

---------------------------------------------------------------------------
(* CalendarDayView: the groups of the selected day (part_000 32-82) *)

CalendarDayView_UrgentDone(ts, selectedDate, zone) ==
    LET dateStr  == ISODate(selectedDate.day, selectedDate.hour, zone)
        dayTasks == SelectSeq(ts, LAMBDA t: t.date = dateStr)
        timed    == SelectSeq(dayTasks, LAMBDA t: t.time # <<>>)
    IN  [mode             |-> "day",
         selectedDate     |-> selectedDate,
         dateStr          |-> dateStr,
         dayTasks         |-> dayTasks,
         tasksWithTime    |-> ArraySort(timed, [i \in 1..Len(timed) |->
                                [j \in 1..Len(timed) |->
                                    localeCompare(timed[i].time[1], timed[j].time[1])]]),
         tasksWithoutTime |-> SelectSeq(dayTasks, LAMBDA t: t.time = <<>>),
         urgentTasks      |-> SelectSeq(dayTasks, LAMBDA t: t.priority = "urgent"),
         highTasks        |-> SelectSeq(dayTasks, LAMBDA t: t.priority = "high" /\ ~t.completed)]

\* what CalendarDayView renders for selectedDate: dateStr, dayTasks and the
\* groups "Urgent Tasks", "High Priority", "Scheduled Tasks", "All Day Tasks"
CalendarDayView(ts, selectedDate, zone) ==
    LET dateStr  == ISODate(selectedDate.day, selectedDate.hour, zone)
        dayTasks == SelectSeq(ts, LAMBDA t: t.date = dateStr)
        timed    == SelectSeq(dayTasks, LAMBDA t: t.time # <<>>)
    IN  [mode             |-> "day",
         selectedDate     |-> selectedDate,
         dateStr          |-> dateStr,
         dayTasks         |-> dayTasks,
         tasksWithTime    |-> ArraySort(timed, [i \in 1..Len(timed) |->
                                [j \in 1..Len(timed) |->
                                    localeCompare(timed[i].time[1], timed[j].time[1])]]),
         tasksWithoutTime |-> SelectSeq(dayTasks, LAMBDA t: t.time = <<>>),
         urgentTasks      |-> SelectSeq(dayTasks, LAMBDA t: t.priority = "urgent" /\ ~t.completed),
         highTasks        |-> SelectSeq(dayTasks, LAMBDA t: t.priority = "high" /\ ~t.completed)]

\* setSelectedDate(newDate): the day view renders again for the new date
DayShown(newDate) ==
    /\ view.mode = "day"
    /\ view' = CalendarDayView(tasks, newDate, clock.zone)
    /\ UNCHANGED <<storeVars, appVars, timerVars, startDate, endDate, searchQuery, modal>>

\* previousDay: newDate.setDate(newDate.getDate() - 1)
previousDay ==
    /\ view.mode = "day"
    /\ view.selectedDate.day - 1 \in Days
    /\ DayShown([view.selectedDate EXCEPT !.day = @ - 1])

\* nextDay: newDate.setDate(newDate.getDate() + 1)
nextDay ==
    /\ view.mode = "day"
    /\ view.selectedDate.day + 1 \in Days
    /\ DayShown([view.selectedDate EXCEPT !.day = @ + 1])

\* a card of the day view: onToggleComplete(task.id); the view renders again
ToggleInDay ==
    /\ view.mode = "day"
    /\ \E n \in 1..Len(view.dayTasks) :
          LET id == view.dayTasks[n].id
          IN  /\ tasks' = toggleTaskComplete(tasks, id)
              /\ storeOp' = [op |-> "card", id |-> id, hit |-> id \in Ids(tasks)]
    /\ view' = CalendarDayView(tasks', view.selectedDate, clock.zone)
    /\ changed' = changed \cup {"tasks"}
    /\ UNCHANGED <<goals, darkMode, streak, storage, phase, queued, clock, persisted,
                   startDate, endDate, searchQuery, modal, timerVars>>

---------------------------------------------------------------------------
(* The calls a day cell makes, and the calendar's next render *)

\* a card of a day cell: onToggleComplete(task.id); the calendar renders
\* again over the new tasks
ToggleInCell ==
    /\ view.mode = "calendar"
    /\ \E day \in DOMAIN view.cells : \E n \in 1..Len(view.cells[day].cards) :
          LET id == view.cells[day].cards[n].id
          IN  /\ tasks' = toggleTaskComplete(tasks, id)
              /\ storeOp' = [op |-> "cell", id |-> id, hit |-> id \in Ids(tasks)]
    /\ view' = CalendarMonthView(tasks', view.selectedDate, clock.zone)
    /\ changed' = changed \cup {"tasks"}
    /\ UNCHANGED <<goals, darkMode, streak, storage, phase, queued, clock, persisted,
                   startDate, endDate, searchQuery, modal, timerVars>>

---------------------------------------------------------------------------
(* The inputs of TaskListView's filter bar, and the list's next render *)

\* the queries typed into the search box: none, a blank, one in capitals
\* and one that ends in a blank
Queries == {<<>>, <<" ">>, <<"A", "B">>, <<"a", " ">>}

\* the list rendered over the filter state the step leaves
ListShown ==
    /\ view' = TaskListView(tasks, startDate', endDate', searchQuery')
    /\ UNCHANGED <<storeVars, appVars, timerVars, modal>>

\* the "From" input: setStartDate(e.target.value)
SetStartDate ==
    /\ view.mode = "list"
    /\ startDate' \in ({<<>>} \cup {<<d>> : d \in Days}) \ {startDate}
    /\ UNCHANGED <<endDate, searchQuery>>
    /\ ListShown

\* the "To" input: setEndDate(e.target.value)
SetEndDate ==
    /\ view.mode = "list"
    /\ endDate' \in ({<<>>} \cup {<<d>> : d \in Days}) \ {endDate}
    /\ UNCHANGED <<startDate, searchQuery>>
    /\ ListShown

\* the search box: setSearchQuery(e.target.value)
SetSearchQuery ==
    /\ view.mode = "list"
    /\ searchQuery' \in Queries \ {searchQuery}
    /\ UNCHANGED <<startDate, endDate>>
    /\ ListShown

\* "Clear Filters", shown when startDate || endDate || searchQuery
ClearFilters ==
    /\ view.mode = "list"
    /\ startDate # <<>> \/ endDate # <<>> \/ searchQuery # <<>>
    /\ startDate' = <<>>
    /\ endDate' = <<>>
    /\ searchQuery' = <<>>
    /\ ListShown

---------------------------------------------------------------------------
(* Date in local time: a Date at local midnight is the number of its day,
   day 0 being 0001-01-01, a Monday (proleptic Gregorian calendar) *)

IsLeapYear(y) == (y % 4 = 0 /\ y % 100 # 0) \/ y % 400 = 0

\* the lengths of the months of year y, month 0 being January
MonthLengths(y) ==
    <<31, IF IsLeapYear(y) THEN 29 ELSE 28, 31, 30, 31, 30, 31, 31, 30, 31, 30, 31>>

\* the days before the 1st of month m (0-based) of year y
DaysBefore(y, m) ==
    LET RECURSIVE months(_)
        months(k) == IF k = 0 THEN 0 ELSE months(k - 1) + MonthLengths(y)[k]
    IN  365 * (y - 1) + ((y - 1) \div 4) - ((y - 1) \div 100) + ((y - 1) \div 400) + months(m)

\* new Date(year, monthIndex, day): a year 0..99 means 1900 + year; a month
\* index outside 0..11 carries into the year, a day outside the month into
\* the neighbouring months
NewDate(year, monthIndex, day) ==
    LET full == IF year \in 0..99 THEN 1900 + year ELSE year
    IN  DaysBefore(full + (monthIndex \div 12), monthIndex % 12) + day - 1

\* date.getFullYear()
getFullYear(date) ==
    CHOOSE y \in ((date \div 366) + 1)..((date \div 365) + 1) :
        DaysBefore(y, 0) <= date /\ date < DaysBefore(y + 1, 0)

\* date.getMonth()
getMonth(date) ==
    LET y == getFullYear(date)
    IN  CHOOSE k \in 0..11 :
            DaysBefore(y, k) <= date /\ date < DaysBefore(y, k) + MonthLengths(y)[k + 1]

\* date.getDate()
getDate(date) == date - DaysBefore(getFullYear(date), getMonth(date)) + 1

\* date.getDay(), Sunday being 0
getDay(date) == (date + 1) % 7

---------------------------------------------------------------------------
(* CalendarMonthView: the month grid (CalendarMonthView.tsx 141-155, 197-203) *)

days_SixWeeks(selectedDate) ==
    LET year              == getFullYear(selectedDate)
        month             == getMonth(selectedDate)
        firstDayOfMonth   == NewDate(year, month, 1)
        lastDayOfMonth    == NewDate(year, month + 1, 0)
        startingDayOfWeek == getDay(firstDayOfMonth)
        daysInMonth       == getDate(lastDayOfMonth)
    IN  [i \in 1..42 |->
            IF i <= startingDayOfWeek \/ i > startingDayOfWeek + daysInMonth
              THEN <<>> ELSE <<i - startingDayOfWeek>>]

\* the array days: null (here <<>>) startingDayOfWeek times, then <<1>> ..
\* <<daysInMonth>>
days(selectedDate) ==
    LET year              == getFullYear(selectedDate)
        month             == getMonth(selectedDate)
        firstDayOfMonth   == NewDate(year, month, 1)
        lastDayOfMonth    == NewDate(year, month + 1, 0)
        startingDayOfWeek == getDay(firstDayOfMonth)
        daysInMonth       == getDate(lastDayOfMonth)
    IN  [i \in 1..startingDayOfWeek |-> <<>>] \o [i \in 1..daysInMonth |-> <<i>>]

\* what CalendarMonthView renders of the grid for selectedDate
MonthGrid(selectedDate) ==
    [mode         |-> "grid",
     selectedDate |-> selectedDate,
     year         |-> getFullYear(selectedDate),
     month        |-> getMonth(selectedDate),
     days         |-> days(selectedDate)]

\* the years the model's calendar is turned through: a century year that is
\* no leap year, one that is, a common year and the leap year after it
Years == {1900, 2000, 2023, 2024}

\* setSelectedDate(newDate) from the month view, within the model's years
GridShown(newDate) ==
    /\ view.mode = "grid"
    /\ getFullYear(newDate) \in Years
    /\ view' = MonthGrid(newDate)
    /\ UNCHANGED <<storeVars, appVars, timerVars, startDate, endDate, searchQuery, modal>>

\* previousMonth: setSelectedDate(new Date(year, month - 1, 1))
previousMonth == view.mode = "grid" /\ GridShown(NewDate(view.year, view.month - 1, 1))

\* nextMonth: setSelectedDate(new Date(year, month + 1, 1))
nextMonth == view.mode = "grid" /\ GridShown(NewDate(view.year, view.month + 1, 1))

---------------------------------------------------------------------------
(* App: the navigation between the views (README.md 116, 323-345) *)

\* setViewMode('day'): CalendarDayView renders for the App's selectedDate
ShowDay ==
    /\ view.mode = "calendar"
    /\ view' = CalendarDayView(tasks, view.selectedDate, clock.zone)
    /\ UNCHANGED <<storeVars, appVars, timerVars, startDate, endDate, searchQuery, modal>>

\* setViewMode('month'): CalendarMonthView renders for the App's selectedDate
ShowMonth ==
    /\ view.mode = "day"
    /\ view' = CalendarMonthView(tasks, view.selectedDate, clock.zone)
    /\ UNCHANGED <<storeVars, appVars, timerVars, startDate, endDate, searchQuery, modal>>

---------------------------------------------------------------------------
(* TaskModal: the form and its save (TaskModal.tsx 43-76, 151-178), opened
   and closed by CalendarMonthView (CalendarMonthView.tsx 157-178, 272-282).
   modal.task is editingTask, the task object handed to handleTaskClick: a
   copy taken when the modal opened, which later store calls do not touch.
   The store's callbacks stay callable while the modal is open. *)

\* what is typed into the title input: nothing, a blank, a padded word
FormTitles == {<<>>, <<" ">>, <<" ", "a">>}
\* what the date input holds: '' when cleared, else a day
FormDates == {<<>>} \cup {<<d>> : d \in Days}
\* the date string '' as a task's date
NoDate == 0
\* tasks the store holds before the modal stops creating
MaxForms == 1

\* the step is one of the modal's handlers; storeOp records which
FormStep(op) ==
    /\ storeOp' = [op |-> op, id |-> NewId(0, 1), hit |-> FALSE]
    /\ UNCHANGED <<tasks, goals, appVars, timerVars,
                   startDate, endDate, searchQuery, view>>

\* a click on a day cell: handleDayClick(date) opens the modal without a
\* task; the useEffect then resets the form and sets the date field to
\* initialDate.toISOString().split('T')[0]
handleDayClick ==
    /\ ~modal.open
    /\ \E d \in Days :
          modal' = [open |-> TRUE, task |-> <<>>, title |-> <<>>,
                    date |-> <<ISODate(d, 0, clock.zone)>>, dependencies |-> {}]
    /\ FormStep("dayClick")

\* a click on a task card: handleTaskClick(task) opens the modal for the
\* task; the useEffect then copies the task's fields into the form
handleTaskClick ==
    /\ ~modal.open
    /\ \E i \in 1..Len(tasks) :
          modal' = [open |-> TRUE, task |-> <<tasks[i]>>, title |-> tasks[i].title,
                    date |-> <<tasks[i].date>>, dependencies |-> tasks[i].dependencies]
    /\ FormStep("taskClick")

\* the title input: setTitle(e.target.value)
setTitle ==
    /\ modal.open
    /\ \E v \in FormTitles \ {modal.title} : modal' = [modal EXCEPT !.title = v]
    /\ FormStep("title")

\* the date input: setDate(e.target.value)
setDate ==
    /\ modal.open
    /\ \E v \in FormDates \ {modal.date} : modal' = [modal EXCEPT !.date = v]
    /\ FormStep("date")

\* the modal's onClose: setTaskModalOpen(false), setEditingTask(null); with
\* neither a task nor an initialDate the useEffect leaves the form as it is
onClose ==
    /\ modal.open
    /\ modal' = [modal EXCEPT !.open = FALSE, !.task = <<>>]
    /\ FormStep("close")

validate_NoTrim(title, date) ==
    IF title = <<>> THEN "Please enter a task title"
    ELSE IF date = <<>> THEN "Please select a date"
    ELSE "ok"

\* the checks handleSave starts with: if (!title.trim()) ..., if (!date) ...
validate(title, date) ==
    IF trim(title) = <<>> THEN "Please enter a task title"
    ELSE IF date = <<>> THEN "Please select a date"
    ELSE "ok"

\* the object handleSave passes to onSave
payload(form) ==
    [title        |-> form.title,
     date         |-> IF form.date = <<>> THEN NoDate ELSE form.date[1],
     completed    |-> IF form.task # <<>> THEN form.task[1].completed ELSE FALSE,
     dependencies |-> form.dependencies]

\* handleSaveTask: onUpdateTask(editingTask.id, task) or onAddTask(task),
\* then the modal closes and editingTask is null
handleSaveTask(task) ==
    /\ IF modal.task # <<>>
         THEN /\ tasks' = updateTask(tasks, modal.task[1].id, task)
              /\ storeOp' = [op |-> "save", id |-> modal.task[1].id,
                             hit |-> modal.task[1].id \in Ids(tasks),
                             toast |-> "Task updated successfully"]
         ELSE /\ Len(tasks) < MaxForms
              /\ \E t \in Stamps, r \in Randoms :
                    /\ tasks' = addTask(tasks, task, t, r)
                    /\ storeOp' = [op |-> "save", id |-> NewId(t, r),
                                   hit |-> NewId(t, r) \in Ids(tasks),
                                   toast |-> "Task created successfully"]
    /\ modal' = [modal EXCEPT !.open = FALSE, !.task = <<>>]
    /\ changed' = changed \cup {"tasks"}

\* the "Create Task" / "Update Task" button: handleSave
handleSave ==
    /\ modal.open
    /\ IF validate(modal.title, modal.date) # "ok"
         THEN /\ storeOp' = [op |-> "save", id |-> NewId(0, 1), hit |-> FALSE,
                             toast |-> validate(modal.title, modal.date)]
              /\ UNCHANGED <<tasks, modal, changed>>
         ELSE handleSaveTask(payload(modal))
    /\ UNCHANGED <<goals, darkMode, streak, storage, phase, queued, clock, persisted,
                   startDate, endDate, searchQuery, view, timerVars>>

---------------------------------------------------------------------------
(* The views as computations over the arrays of the store.  Of the array
   methods the views call, filter, the spread [...tasks], reduce and
   Object.keys build a new array and leave their receiver alone, while sort
   orders its receiver in place.  tasks and goals say what the store's arrays
   hold when the render is over, shown what the view displays. *)

\* tasks of the collections the views are computed from
MaxRender == 2

\* date.slice(0, 7), the 'YYYY-MM' of a date key, as the number of the month:
\* day 1 is the first day of month 0, the days before it are in month -1
MonthOf(date) == IF date >= 1 THEN 0 ELSE 0 - 1

\* GoalTracker's monthly statistics: currentMonth = new Date().toISOString()
\* .slice(0, 7), monthTasks = tasks.filter(t => t.date.startsWith(currentMonth))
GoalTracker(ts, today) ==
    LET monthTasks == SelectSeq(ts, LAMBDA t : MonthOf(t.date) = MonthOf(today))
    IN  [mode                |-> "goals",
         currentMonth        |-> MonthOf(today),
         totalMonthTasks     |-> Len(monthTasks),
         completedMonthTasks |-> Len(SelectSeq(monthTasks, LAMBDA t : t.completed))]

ListArrays_SortsTasks(ts, gs, from, to, text) ==
    [tasks |-> IF from = <<>> /\ to = <<>> /\ trim(text) = <<>>
                 THEN TaskListView(ts, from, to, text).filteredTasks
                 ELSE ts,
     goals |-> gs,
     shown |-> TaskListView(ts, from, to, text)]

\* TaskListView sorts filteredTasks, which starts as the copy [...tasks]
ListArrays(ts, gs, from, to, text) ==
    [tasks |-> ts, goals |-> gs, shown |-> TaskListView(ts, from, to, text)]

\* the view has rendered: no setTasks and no setGoals was called
Shown(arrays) ==
    /\ tasks' = arrays.tasks
    /\ goals' = arrays.goals
    /\ view' = arrays.shown
    /\ storeOp' = [op |-> "render", id |-> NewId(0, 1), hit |-> FALSE]
    /\ UNCHANGED <<appVars, timerVars, startDate, endDate, searchQuery, modal>>

\* setViewMode('focus'): FocusMode sorts the array tasks.filter(...) returned
ShowFocus ==
    /\ view.mode # "focus"
    /\ Shown([tasks |-> tasks, goals |-> goals, shown |-> FocusMode(tasks, Today)])

\* setViewMode('list')
ShowList ==
    /\ view.mode # "list"
    /\ Shown(ListArrays(tasks, goals, startDate, endDate, searchQuery))

\* setViewMode('day'), selectedDate being the App's useState(new Date()):
\* CalendarDayView sorts the array dayTasks.filter(t => t.time) returned
ShowDayView ==
    /\ view.mode # "day"
    /\ Shown([tasks |-> tasks, goals |-> goals,
              shown |-> CalendarDayView(tasks, [day |-> clock.day, hour |-> clock.hour],
                                        clock.zone)])

\* setViewMode('month'): CalendarMonthView and getTaskLoad only filter
ShowMonthView ==
    /\ view.mode # "calendar"
    /\ Shown([tasks |-> tasks, goals |-> goals,
              shown |-> CalendarMonthView(tasks, [day |-> clock.day, hour |-> clock.hour],
                                          clock.zone)])

\* setViewMode('goals'): GoalTracker only filters
ShowGoals ==
    /\ view.mode # "goals"
    /\ Shown([tasks |-> tasks, goals |-> goals, shown |-> GoalTracker(tasks, Today)])

---------------------------------------------------------------------------
(* Specifications *)

\* FocusMode as mounted (its useState initial values, the effect of the first
\* render done) and App with nothing in localStorage
Init ==
    /\ pomodoroTime = FocusSeconds
    /\ isRunning = FALSE
    /\ isBreak = FALSE
    /\ completedPomodoros = 0
    /\ interval = FALSE
    /\ effectPending = FALSE
    /\ timerOp = "init"
    /\ phaseChanges = 0
    /\ run = "fresh"
    /\ ticks = 0
    /\ tasks = <<>>
    /\ goals = <<>>
    /\ storeOp = [op |-> "init", id |-> NewId(0, 1), hit |-> FALSE]
    /\ darkMode = FALSE
    /\ streak = 0
    /\ storage = [tasks |-> JSONstringify(<<>>), goals |-> JSONstringify(<<>>),
                  darkMode |-> JSONstringify(FALSE), streak |-> JSONstringify(0)]
    /\ phase = "ready"
    /\ queued = <<>>
    /\ changed = {}
    /\ clock = [day |-> 0, hour |-> 12, zone |-> [before |-> 0, after |-> 0, change |-> 0]]
    /\ persisted = storage
    /\ startDate = <<>>
    /\ endDate = <<>>
    /\ searchQuery = <<>>
    /\ modal = Closed
    /\ view = [mode |-> "calendar"]

\* the App before its mount effects have run, over whatever localStorage holds
MountInit ==
    /\ pomodoroTime = FocusSeconds
    /\ isRunning = FALSE
    /\ isBreak = FALSE
    /\ completedPomodoros = 0
    /\ interval = FALSE
    /\ effectPending = FALSE
    /\ timerOp = "init"
    /\ phaseChanges = 0
    /\ run = "fresh"
    /\ ticks = 0
    /\ tasks = <<>>
    /\ goals = <<>>
    /\ storeOp = [op |-> "init", id |-> NewId(0, 1), hit |-> FALSE]
    /\ darkMode = FALSE
    /\ streak = 0
    /\ storage \in StoredStates
    /\ phase = "initial"
    /\ queued = <<>>
    /\ changed = {}
    /\ clock = [day |-> 0, hour |-> 12, zone |-> [before |-> 0, after |-> 0, change |-> 0]]
    /\ persisted = storage
    /\ startDate = <<>>
    /\ endDate = <<>>
    /\ searchQuery = <<>>
    /\ modal = Closed
    /\ view = [mode |-> "calendar"]

\* the App running, a task collection just set, at some time in some zone
StreakInit ==
    /\ pomodoroTime = FocusSeconds
    /\ isRunning = FALSE
    /\ isBreak = FALSE
    /\ completedPomodoros = 0
    /\ interval = FALSE
    /\ effectPending = FALSE
    /\ timerOp = "init"
    /\ phaseChanges = 0
    /\ run = "fresh"
    /\ ticks = 0
    /\ \E n \in 0..MaxStreakTasks :
          tasks \in [1..n -> [date : StreakDays, completed : BOOLEAN]]
    /\ goals = <<>>
    /\ storeOp = [op |-> "init", id |-> NewId(0, 1), hit |-> FALSE]
    /\ darkMode = FALSE
    /\ streak = 0
    /\ storage = [tasks |-> JSONstringify(<<>>), goals |-> JSONstringify(<<>>),
                  darkMode |-> JSONstringify(FALSE), streak |-> JSONstringify(0)]
    /\ phase = "ready"
    /\ queued = <<>>
    /\ changed = {"tasks"}
    /\ clock \in [day : {0}, hour : Hours, zone : Zones]
    /\ persisted = storage
    /\ startDate = <<>>
    /\ endDate = <<>>
    /\ searchQuery = <<>>
    /\ modal = Closed
    /\ view = [mode |-> "calendar"]

\* the App before its mount effects have run, over the tasks an earlier
\* session left in localStorage
AppInit ==
    /\ pomodoroTime = FocusSeconds
    /\ isRunning = FALSE
    /\ isBreak = FALSE
    /\ completedPomodoros = 0
    /\ interval = FALSE
    /\ effectPending = FALSE
    /\ timerOp = "init"
    /\ phaseChanges = 0
    /\ run = "fresh"
    /\ ticks = 0
    /\ tasks = <<>>
    /\ goals = <<>>
    /\ storeOp = [op |-> "init", id |-> NewId(0, 1), hit |-> FALSE]
    /\ darkMode = FALSE
    /\ streak = 0
    /\ storage \in [tasks    : {Missing} \cup {JSONstringify(ts) : ts \in {x \in TaskSnapshots :
                                     Len(x) = 1 /\ x[1].completed /\ x[1].date = 1}},
                     goals    : {Missing},
                     darkMode : {Missing},
                     streak   : {JSONstringify(1)}]
    /\ phase = "initial"
    /\ queued = <<>>
    /\ changed = {}
    /\ clock = [day |-> 1, hour |-> 12, zone |-> [before |-> 0, after |-> 0, change |-> 0]]
    /\ persisted = storage
    /\ startDate = <<>>
    /\ endDate = <<>>
    /\ searchQuery = <<>>
    /\ modal = Closed
    /\ view = [mode |-> "calendar"]

\* the priorities and dates a task of the focus queue's input is drawn from:
\* day 1 is today; tasks of another day differ in nothing else
QueueKinds ==
    {k \in [date : Days, priority : Priorities] : k.date = 1 \/ k.priority = "urgent"}

\* FocusMode open at noon of day 1 over a task collection nobody completed yet
QueueInit ==
    /\ pomodoroTime = FocusSeconds
    /\ isRunning = FALSE
    /\ isBreak = FALSE
    /\ completedPomodoros = 0
    /\ interval = FALSE
    /\ effectPending = FALSE
    /\ timerOp = "init"
    /\ phaseChanges = 0
    /\ run = "fresh"
    /\ ticks = 0
    /\ \E n \in 0..MaxQueue : \E f \in [1..n -> QueueKinds] :
          tasks = [i \in 1..n |-> [id |-> IdOf(i), date |-> f[i].date,
                                    completed |-> FALSE, priority |-> f[i].priority]]
    /\ goals = <<>>
    /\ storeOp = [op |-> "init", id |-> NewId(0, 1), hit |-> FALSE]
    /\ darkMode = FALSE
    /\ streak = 0
    /\ storage = [tasks |-> JSONstringify(<<>>), goals |-> JSONstringify(<<>>),
                  darkMode |-> JSONstringify(FALSE), streak |-> JSONstringify(0)]
    /\ phase = "ready"
    /\ queued = <<>>
    /\ changed = {}
    /\ clock = [day |-> 1, hour |-> 12, zone |-> [before |-> 0, after |-> 0, change |-> 0]]
    /\ persisted = storage
    /\ startDate = <<>>
    /\ endDate = <<>>
    /\ searchQuery = <<>>
    /\ modal = Closed
    /\ view = FocusMode(tasks, Today)

\* the dates and priorities a task of the calendar's input is drawn from:
\* every priority on day 1, and urgent tasks on the other days
LoadKinds ==
    {k \in [date : Days, priority : Priorities, completed : BOOLEAN] :
        k.date = 1 \/ k.priority = "urgent"}

\* the calendar open over any task collection
LoadInit ==
    /\ pomodoroTime = FocusSeconds
    /\ isRunning = FALSE
    /\ isBreak = FALSE
    /\ completedPomodoros = 0
    /\ interval = FALSE
    /\ effectPending = FALSE
    /\ timerOp = "init"
    /\ phaseChanges = 0
    /\ run = "fresh"
    /\ ticks = 0
    /\ \E n \in 0..MaxLoad : \E f \in [1..n -> LoadKinds] :
          tasks = [i \in 1..n |-> [id |-> IdOf(i), date |-> f[i].date,
                                    completed |-> f[i].completed,
                                    priority |-> f[i].priority]]
    /\ goals = <<>>
    /\ storeOp = [op |-> "init", id |-> NewId(0, 1), hit |-> FALSE]
    /\ darkMode = FALSE
    /\ streak = 0
    /\ storage = [tasks |-> JSONstringify(<<>>), goals |-> JSONstringify(<<>>),
                  darkMode |-> JSONstringify(FALSE), streak |-> JSONstringify(0)]
    /\ phase = "ready"
    /\ queued = <<>>
    /\ changed = {}
    /\ clock = [day |-> 1, hour |-> 12, zone |-> [before |-> 0, after |-> 0, change |-> 0]]
    /\ persisted = storage
    /\ startDate = <<>>
    /\ endDate = <<>>
    /\ searchQuery = <<>>
    /\ modal = Closed
    /\ view = CalendarMonthView(tasks, [day |-> clock.day, hour |-> clock.hour], clock.zone)

\* the times of day a task may carry: 08:00 and 09:00
Times == {8, 9}

\* the titles and descriptions of the tasks the list is searched in
Titles       == {<<"A", "b">>, <<"b", "a">>}
Descriptions == {<<>>, <<"a", " ", "b">>}

\* the list open, no filter set, over tasks that differ in date and time
OrderInit ==
    /\ pomodoroTime = FocusSeconds
    /\ isRunning = FALSE
    /\ isBreak = FALSE
    /\ completedPomodoros = 0
    /\ interval = FALSE
    /\ effectPending = FALSE
    /\ timerOp = "init"
    /\ phaseChanges = 0
    /\ run = "fresh"
    /\ ticks = 0
    /\ \E n \in 0..MaxOrder :
          \E f \in [1..n -> [date : Days, time : {<<>>} \cup {<<t>> : t \in Times}]] :
             tasks = [i \in 1..n |-> [id |-> IdOf(i), date |-> f[i].date, time |-> f[i].time,
                                       title |-> <<"a">>, description |-> <<>>]]
    /\ goals = <<>>
    /\ storeOp = [op |-> "init", id |-> NewId(0, 1), hit |-> FALSE]
    /\ darkMode = FALSE
    /\ streak = 0
    /\ storage = [tasks |-> JSONstringify(<<>>), goals |-> JSONstringify(<<>>),
                  darkMode |-> JSONstringify(FALSE), streak |-> JSONstringify(0)]
    /\ phase = "ready"
    /\ queued = <<>>
    /\ changed = {}
    /\ clock = [day |-> 1, hour |-> 12, zone |-> [before |-> 0, after |-> 0, change |-> 0]]
    /\ persisted = storage
    /\ startDate = <<>>
    /\ endDate = <<>>
    /\ searchQuery = <<>>
    /\ modal = Closed
    /\ view = TaskListView(tasks, startDate, endDate, searchQuery)

\* the list open, no filter set, over tasks that differ in date and text
ListInit ==
    /\ pomodoroTime = FocusSeconds
    /\ isRunning = FALSE
    /\ isBreak = FALSE
    /\ completedPomodoros = 0
    /\ interval = FALSE
    /\ effectPending = FALSE
    /\ timerOp = "init"
    /\ phaseChanges = 0
    /\ run = "fresh"
    /\ ticks = 0
    /\ \E n \in 0..MaxList :
          \E f \in [1..n -> [date : Days, title : Titles, description : Descriptions]] :
             tasks = [i \in 1..n |-> [id |-> IdOf(i), date |-> f[i].date, time |-> <<>>,
                                       title |-> f[i].title,
                                       description |-> f[i].description]]
    /\ goals = <<>>
    /\ storeOp = [op |-> "init", id |-> NewId(0, 1), hit |-> FALSE]
    /\ darkMode = FALSE
    /\ streak = 0
    /\ storage = [tasks |-> JSONstringify(<<>>), goals |-> JSONstringify(<<>>),
                  darkMode |-> JSONstringify(FALSE), streak |-> JSONstringify(0)]
    /\ phase = "ready"
    /\ queued = <<>>
    /\ changed = {}
    /\ clock = [day |-> 1, hour |-> 12, zone |-> [before |-> 0, after |-> 0, change |-> 0]]
    /\ persisted = storage
    /\ startDate = <<>>
    /\ endDate = <<>>
    /\ searchQuery = <<>>
    /\ modal = Closed
    /\ view = TaskListView(tasks, startDate, endDate, searchQuery)

\* the dates, times and priorities a task of the day view's input is drawn
\* from: anything on day 1, and urgent tasks at 08:00 on the other days
DayKinds ==
    {k \in [date : Days, time : {<<>>} \cup {<<t>> : t \in Times}, priority : Priorities] :
        k.date = 1 \/ (k.priority = "urgent" /\ k.time = <<8>>)}

\* the day view open on today (useState(new Date())) over tasks nobody completed yet
DayInit ==
    /\ pomodoroTime = FocusSeconds
    /\ isRunning = FALSE
    /\ isBreak = FALSE
    /\ completedPomodoros = 0
    /\ interval = FALSE
    /\ effectPending = FALSE
    /\ timerOp = "init"
    /\ phaseChanges = 0
    /\ run = "fresh"
    /\ ticks = 0
    /\ \E n \in 0..MaxDayTasks : \E f \in [1..n -> DayKinds] :
          tasks = [i \in 1..n |-> [id |-> IdOf(i), date |-> f[i].date, time |-> f[i].time,
                                    priority |-> f[i].priority, completed |-> FALSE]]
    /\ goals = <<>>
    /\ storeOp = [op |-> "init", id |-> NewId(0, 1), hit |-> FALSE]
    /\ darkMode = FALSE
    /\ streak = 0
    /\ storage = [tasks |-> JSONstringify(<<>>), goals |-> JSONstringify(<<>>),
                  darkMode |-> JSONstringify(FALSE), streak |-> JSONstringify(0)]
    /\ phase = "ready"
    /\ queued = <<>>
    /\ changed = {}
    /\ clock = [day |-> 1, hour |-> 12, zone |-> [before |-> 0, after |-> 0, change |-> 0]]
    /\ persisted = storage
    /\ startDate = <<>>
    /\ endDate = <<>>
    /\ searchQuery = <<>>
    /\ modal = Closed
    /\ view = CalendarDayView(tasks, [day |-> clock.day, hour |-> clock.hour], clock.zone)

\* the calendar open at some hour of day 1 in some time zone
KeyInit ==
    /\ pomodoroTime = FocusSeconds
    /\ isRunning = FALSE
    /\ isBreak = FALSE
    /\ completedPomodoros = 0
    /\ interval = FALSE
    /\ effectPending = FALSE
    /\ timerOp = "init"
    /\ phaseChanges = 0
    /\ run = "fresh"
    /\ ticks = 0
    /\ \E n \in 0..MaxTasks :
          \E f \in [1..n -> [date : Days, time : {<<>>, <<8>>}, completed : BOOLEAN]] :
             tasks = [i \in 1..n |-> [id |-> IdOf(i), date |-> f[i].date, time |-> f[i].time,
                                       priority |-> "urgent", completed |-> f[i].completed]]
    /\ goals = <<>>
    /\ storeOp = [op |-> "init", id |-> NewId(0, 1), hit |-> FALSE]
    /\ darkMode = FALSE
    /\ streak = 0
    /\ storage = [tasks |-> JSONstringify(<<>>), goals |-> JSONstringify(<<>>),
                  darkMode |-> JSONstringify(FALSE), streak |-> JSONstringify(0)]
    /\ phase = "ready"
    /\ queued = <<>>
    /\ changed = {}
    /\ clock \in [day : {1}, hour : Hours, zone : Zones]
    /\ persisted = storage
    /\ startDate = <<>>
    /\ endDate = <<>>
    /\ searchQuery = <<>>
    /\ modal = Closed
    /\ view = CalendarMonthView(tasks, [day |-> clock.day, hour |-> clock.hour], clock.zone)

\* the month view open on the 15th of some month, over any task collection
GridInit ==
    /\ pomodoroTime = FocusSeconds
    /\ isRunning = FALSE
    /\ isBreak = FALSE
    /\ completedPomodoros = 0
    /\ interval = FALSE
    /\ effectPending = FALSE
    /\ timerOp = "init"
    /\ phaseChanges = 0
    /\ run = "fresh"
    /\ ticks = 0
    /\ \E n \in 0..MaxTasks : \E f \in [1..n -> [date : Days, completed : BOOLEAN]] :
          tasks = [i \in 1..n |-> [id |-> IdOf(i), date |-> f[i].date,
                                    completed |-> f[i].completed]]
    /\ goals = <<>>
    /\ storeOp = [op |-> "init", id |-> NewId(0, 1), hit |-> FALSE]
    /\ darkMode = FALSE
    /\ streak = 0
    /\ storage = [tasks |-> JSONstringify(<<>>), goals |-> JSONstringify(<<>>),
                  darkMode |-> JSONstringify(FALSE), streak |-> JSONstringify(0)]
    /\ phase = "ready"
    /\ queued = <<>>
    /\ changed = {}
    /\ clock = [day |-> 1, hour |-> 12, zone |-> [before |-> 0, after |-> 0, change |-> 0]]
    /\ persisted = storage
    /\ startDate = <<>>
    /\ endDate = <<>>
    /\ searchQuery = <<>>
    /\ modal = Closed
    /\ \E y \in Years, k \in 0..11 : view = MonthGrid(NewDate(y, k, 15))

TimerNext == PressStartPause \/ PressReset \/ PressSkip \/ Tick \/ RunEffect

\* the focus timer alone
TimerSpec == Init /\ [][TimerNext]_vars

TaskNext == AddTask(FALSE) \/ SaveTask(FALSE) \/ DropTask \/ DeleteTask \/ ToggleTask

\* the task collection of the store, no task given dependencies
TaskSpec == Init /\ [][TaskNext]_vars

LinkNext == AddTask(TRUE) \/ SaveTask(TRUE) \/ DeleteTask

\* the task collection of the store, tasks given dependencies on each other
LinkSpec == Init /\ [][LinkNext]_vars

GoalNext == AddGoal \/ IncrementGoal \/ DecrementGoal \/ DeleteGoal

\* the goal collection of the store
GoalSpec == Init /\ [][GoalNext]_vars

StreakNext == RunEffects \/ Rerender

\* the streak effect and the render of its result, for a given task collection
StreakSpec == StreakInit /\ [][StreakNext]_vars

\* the user's task operations on an App that has processed the change before
CreateTask   == Settled /\ AddTask(FALSE)
CompleteTask == Settled /\ ToggleTask
RemoveTask   == Settled /\ DeleteTask
MoveTask     == Settled /\ DropTask
Midnight     == Settled /\ DayPasses

AppNext ==
    \/ MountEffects \/ Rerender \/ RunEffects
    \/ CreateTask \/ CompleteTask \/ RemoveTask \/ MoveTask \/ Midnight

\* the App from its start on: each change of the task collection is made
\* once the one before it has been processed
AppSpec == AppInit /\ [][AppNext]_vars

QueueNext == CompleteNextUp \/ CompleteUpcoming

\* FocusMode over any task collection, its cards being completed one by one
QueueSpec == QueueInit /\ [][QueueNext]_vars

LoadNext == ToggleInCell

\* the calendar over any task collection, its cards being toggled
LoadSpec == LoadInit /\ [][LoadNext]_vars

ListNext == SetStartDate \/ SetEndDate \/ SetSearchQuery \/ ClearFilters

\* the list over tasks of any dates and times, the filters being set and cleared
OrderSpec == OrderInit /\ [][ListNext]_vars

\* the list over tasks of any dates and texts, the filters being set and cleared
ListSpec == ListInit /\ [][ListNext]_vars

DayNext == previousDay \/ nextDay \/ ToggleInDay

\* the day view over any task collection, days being stepped and cards toggled
DaySpec == DayInit /\ [][DayNext]_vars

KeyNext == ShowDay \/ ShowMonth \/ previousDay \/ nextDay \/ ToggleInCell \/ ToggleInDay

\* the calendar and the day view in any time zone
KeySpec == KeyInit /\ [][KeyNext]_vars

GridNext == previousMonth \/ nextMonth

\* the month grid of the months of the model's years, turned month by month
GridSpec == GridInit /\ [][GridNext]_vars

MountNext == MountEffects \/ Rerender \/ RunEffects

\* the start of the App: mount effects, renders and the effects after them
\* the month view has rendered over a stored collection, the effects of the
\* first render are due; the list's filter is empty or starts at day 2
RenderInit ==
    /\ pomodoroTime = FocusSeconds
    /\ isRunning = FALSE
    /\ isBreak = FALSE
    /\ completedPomodoros = 0
    /\ interval = FALSE
    /\ effectPending = FALSE
    /\ timerOp = "init"
    /\ phaseChanges = 0
    /\ run = "fresh"
    /\ ticks = 0
    /\ \E n \in 0..MaxRender : \E f \in [1..n -> [date : Days, time : {<<>>, <<8>>},
                                                 priority : {"urgent", "low"},
                                                 completed : BOOLEAN]] :
          tasks = [i \in 1..n |-> [id |-> IdOf(i), createdAt |-> 0, date |-> f[i].date,
                                   time |-> f[i].time, priority |-> f[i].priority,
                                   completed |-> f[i].completed, title |-> <<"a">>,
                                   description |-> <<>>, dependencies |-> {}]]
    /\ goals \in {<<>>, <<[id |-> IdOf(1), target |-> 1, current |-> 0]>>}
    /\ storeOp = [op |-> "init", id |-> NewId(0, 1), hit |-> FALSE]
    /\ darkMode = FALSE
    /\ streak = 0
    /\ storage = [tasks |-> JSONstringify(<<>>), goals |-> JSONstringify(<<>>),
                  darkMode |-> JSONstringify(FALSE), streak |-> JSONstringify(0)]
    /\ phase = "ready"
    /\ queued = <<>>
    /\ changed = {"tasks", "goals"}
    /\ clock = [day |-> 1, hour |-> 12, zone |-> [before |-> 0, after |-> 0, change |-> 0]]
    /\ persisted = storage
    /\ startDate \in {<<>>, <<2>>}
    /\ endDate = <<>>
    /\ searchQuery = <<>>
    /\ modal = Closed
    /\ view = CalendarMonthView(tasks, [day |-> clock.day, hour |-> clock.hour], clock.zone)

\* ---- the views rendered in turn over one collection, and the streak effect
RenderNext ==
    \/ ShowFocus \/ ShowList \/ ShowDayView \/ ShowMonthView \/ ShowGoals
    \/ RunEffects \/ Rerender

RenderSpec == RenderInit /\ [][RenderNext]_vars

\* ---- the task modal over the store, from the empty store
ModalNext ==
    \/ handleDayClick \/ handleTaskClick \/ setTitle \/ setDate \/ onClose
    \/ handleSave \/ DropTask \/ DeleteTask \/ ToggleTask

ModalSpec == Init /\ [][ModalNext]_vars

MountSpec == MountInit /\ [][MountNext]_vars

---------------------------------------------------------------------------
(* Properties of the focus timer (TimerSpec) *)

\* C1: from the initial state (Focus, 1500 s, not running, counter 0), once
\* start is pressed and no other button is, the timer counts down one second
\* per tick without changing phase, and once the 1500th tick has been handled
\* it is in Break with 300 s remaining, not running, the counter exactly 1
\* higher: exactly one phase change happened.
C1_FocusExpiresOnce ==
    run = "clean" =>
        /\ phaseChanges <= 1
        /\ ticks < FocusSeconds =>
              /\ ~isBreak
              /\ phaseChanges = 0
              /\ completedPomodoros = 0
              /\ pomodoroTime = FocusSeconds - ticks
        /\ (ticks = FocusSeconds /\ timerOp = "effect") =>
              /\ isBreak
              /\ phaseChanges = 1
              /\ pomodoroTime = BreakSeconds
              /\ ~isRunning
              /\ ~interval
              /\ completedPomodoros = 1

\* all 1500 ticks of the undisturbed run fired and the timer came to rest
C1_FocusRanOut ==
    /\ run = "clean"
    /\ ticks = FocusSeconds
    /\ timerOp = "effect"
    /\ ~effectPending
    /\ isBreak

\* C2: the phase changes from Break to Focus only when the effect finds the
\* remaining time of the Break at 0, and whenever it finds that, the timer
\* becomes Focus with 1500 s remaining, stopped (not running, no interval
\* left), with the completed-pomodoro counter unchanged.
C2_BreakExpiry ==
    [][ /\ (isBreak /\ ~isBreak') =>
              /\ timerOp' = "effect"
              /\ pomodoroTime = 0
        /\ (timerOp' = "effect" /\ isBreak /\ pomodoroTime = 0) =>
              /\ ~isBreak'
              /\ pomodoroTime' = FocusSeconds
              /\ ~isRunning'
              /\ ~interval'
              /\ completedPomodoros' = completedPomodoros ]_vars

\* a Break has just expired: the second phase change or a later one, back to Focus
C2_BreakRanOut ==
    /\ timerOp = "effect"
    /\ effectPending
    /\ ~isBreak
    /\ pomodoroTime = FocusSeconds
    /\ ~isRunning
    /\ phaseChanges >= 2

\* C3: skip takes effect immediately and synchronously: the state it leaves,
\* remaining = 0 with the phase not yet changed, admits no tick, start/pause,
\* reset or second skip; the transition of the expiry is the only step from it.
C3_SkipIsSynchronous ==
    [][ (timerOp = "skip" /\ pomodoroTime = 0) => timerOp' = "effect" ]_vars

\* C4: once the timer is not running (paused, reset, or stopped by a phase
\* change) no tick fires: every tick finds running = true.
C4_NoTickWhenStopped ==
    [][ timerOp' = "tick" => isRunning ]_vars

\* C5: start/pause flips running and leaves remaining, the phase and the
\* completed-pomodoro counter as they are; in particular a start after a
\* pause resumes from the remaining value it finds, not from a full phase.
C5_ToggleFlipsRunningOnly ==
    [][ timerOp' = "toggle" =>
          /\ isRunning' = ~isRunning
          /\ pomodoroTime' = pomodoroTime
          /\ isBreak' = isBreak
          /\ completedPomodoros' = completedPomodoros ]_vars

\* start was pressed on a paused timer part of whose phase has elapsed
C5_Resumed ==
    /\ timerOp = "toggle"
    /\ isRunning
    /\ ~interval
    /\ 0 < pomodoroTime
    /\ pomodoroTime < FullDuration(isBreak)

\* C6: reset, from any timer state, sets running = false and remaining to the
\* full duration of the current phase (1500 in Focus, 300 in Break); the
\* phase and the completed-pomodoro counter are unchanged.
C6_ResetRestoresPhase ==
    [][ timerOp' = "reset" =>
          /\ ~isRunning'
          /\ pomodoroTime' = (IF isBreak THEN BreakSeconds ELSE FocusSeconds)
          /\ isBreak' = isBreak
          /\ completedPomodoros' = completedPomodoros ]_vars

\* reset was pressed in a Break, after a completed pomodoro
C6_ResetInBreak ==
    /\ timerOp = "reset"
    /\ isBreak
    /\ pomodoroTime = BreakSeconds
    /\ ~isRunning
    /\ completedPomodoros > 0

---------------------------------------------------------------------------
(* Properties of the store (TaskSpec, LinkSpec, GoalSpec) *)

\* C7: after any sequence of store operations no two tasks have the same id
\* and no two goals have the same id.
C7_UniqueIds ==
    /\ \A i, j \in 1..Len(tasks) : tasks[i].id = tasks[j].id => i = j
    /\ \A i, j \in 1..Len(goals) : goals[i].id = goals[j].id => i = j

\* C8: update, delete and toggleComplete called with an id no task has leave
\* the task collection as it is: same tasks, same fields, same order.
C8_UnknownIdIsNoOp ==
    [][ (storeOp'.op \in {"update", "drop", "delete", "toggle"} /\ storeOp'.id \notin Ids(tasks))
            => tasks' = tasks ]_vars

\* an update was called with an id that no task of a non-empty store has
C8_UpdatedUnknownId ==
    /\ storeOp.op = "update"
    /\ ~storeOp.hit
    /\ Len(tasks) >= 1

\* C9: toggleComplete(id) negates the completed flag of the task with that id
\* and changes nothing else: its other fields, every task with another id,
\* and the number and order of tasks stay; a second toggleComplete(id) gives
\* the original collection back.
C9_ToggleFlipsCompletedOnly ==
    [][ storeOp'.op = "toggle" =>
          /\ Len(tasks') = Len(tasks)
          /\ \A i \in 1..Len(tasks) :
                /\ DOMAIN tasks'[i] = DOMAIN tasks[i]
                /\ \A f \in DOMAIN tasks[i] :
                      tasks'[i][f] = IF f = "completed" /\ tasks[i].id = storeOp'.id
                                       THEN ~tasks[i].completed
                                       ELSE tasks[i][f]
          /\ toggleTaskComplete(tasks', storeOp'.id) = tasks ]_vars

\* a task completed by toggleComplete stands next to one left uncompleted
C9_ToggledOneOfTwo ==
    /\ storeOp.op = "toggle"
    /\ storeOp.hit
    /\ \E i, j \in 1..Len(tasks) :
          /\ tasks[i].id = storeOp.id
          /\ tasks[i].completed
          /\ tasks[j].id # storeOp.id
          /\ ~tasks[j].completed

\* C10: delete(id) removes exactly the tasks with that id; every other task
\* stays, in order, with all its fields, its dependencies included: an entry
\* naming the deleted id stays in the dependencies of the tasks that had it.
C10_DeleteNoCascade ==
    [][ storeOp'.op = "delete" =>
          LET id == storeOp'.id
              gone(i) == Cardinality({j \in 1..i : tasks[j].id = id})
          IN  /\ Len(tasks') = Len(tasks) - gone(Len(tasks))
              /\ \A i \in 1..Len(tasks) :
                    tasks[i].id # id => tasks'[i - gone(i)] = tasks[i]
              /\ \A i \in 1..Len(tasks') :
                    /\ tasks'[i].id # id
                    /\ \E j \in 1..Len(tasks) :
                          /\ tasks[j].id = tasks'[i].id
                          /\ tasks[j].dependencies = tasks'[i].dependencies ]_vars

\* a task was deleted that another task still names in its dependencies
C10_DanglingDependency ==
    /\ storeOp.op = "delete"
    /\ storeOp.hit
    /\ storeOp.id \notin Ids(tasks)
    /\ \E i \in 1..Len(tasks) : storeOp.id \in tasks[i].dependencies

\* C11: dropping task t on the cell with date key k changes only t's date,
\* to k: the other fields of t, every task with another id, and the number
\* and order of tasks stay; afterwards the tasks cell k lists and counts for
\* its load include t, and those of every other cell do not.
C11_DropChangesDateOnly ==
    [][ (storeOp'.op = "drop" /\ storeOp'.id \in Ids(tasks)) =>
          LET id == storeOp'.id
              k  == storeOp'.date
              shown(d) == {DayTasks(tasks', d)[j].id : j \in 1..Len(DayTasks(tasks', d))}
          IN  /\ Len(tasks') = Len(tasks)
              /\ \A i \in 1..Len(tasks) :
                    /\ DOMAIN tasks'[i] = DOMAIN tasks[i]
                    /\ \A f \in DOMAIN tasks[i] :
                          tasks'[i][f] = IF f = "date" /\ tasks[i].id = id
                                           THEN k
                                           ELSE tasks[i][f]
              /\ \A d \in Days : id \in shown(d) <=> d = k ]_vars

\* a completed task was dropped on another day than the task beside it is on
C11_DroppedElsewhere ==
    /\ storeOp.op = "drop"
    /\ storeOp.hit
    /\ \E i, j \in 1..Len(tasks) :
          /\ tasks[i].id = storeOp.id
          /\ tasks[i].completed
          /\ tasks[i].date = storeOp.date
          /\ tasks[j].id # storeOp.id
          /\ tasks[j].date # storeOp.date

\* C12: after any sequence of addGoal, incrementGoal, decrementGoal and
\* deleteGoal every goal has 0 <= current <= target and target >= 1, and
\* incrementGoal on a goal at its target and decrementGoal on a goal at 0
\* leave the goal collection as it is.
C12_GoalClamped ==
    [][ LET hit  == {i \in 1..Len(goals) : goals[i].id = storeOp'.id}
            goal == goals[CHOOSE i \in hit : \A j \in hit : i <= j]
        IN  /\ \A i \in 1..Len(goals') :
                  /\ goals'[i].target >= 1
                  /\ 0 <= goals'[i].current
                  /\ goals'[i].current <= goals'[i].target
            /\ (storeOp'.op = "incrementGoal" /\ hit # {} /\ goal.current = goal.target)
                  => goals' = goals
            /\ (storeOp'.op = "decrementGoal" /\ hit # {} /\ goal.current = 0)
                  => goals' = goals ]_vars

---------------------------------------------------------------------------
(* Properties of the App's start (MountSpec) *)

\* C13: if a task collection was persisted under the tasks key, then once
\* loading has completed the task collection in memory is that collection and
\* the persisted item still holds it, however often the mount effects ran.
C13_PersistedTasksSurvive ==
    (persisted.tasks.kind = "json" /\ Settled) =>
        /\ tasks = persisted.tasks.value
        /\ storage.tasks = persisted.tasks

\* C14: a missing or malformed persisted item (tasks, goals, dark-mode flag,
\* streak) is treated as the default: the start never ends in an error, and
\* once it has completed, the cell of such a key holds its default value.
C14_BadSnapshotIsDefault ==
    /\ phase # "crashed"
    /\ Settled =>
          /\ persisted.tasks.kind # "json" => tasks = <<>>
          /\ persisted.goals.kind # "json" => goals = <<>>
          /\ persisted.darkMode.kind # "json" => darkMode = FALSE

---------------------------------------------------------------------------
(* Properties of the streak (StreakSpec) *)

\* C15: the streak is the number of consecutive days, counted backward from
\* today and including today, each of which has at least one completed task
\* dated on it: every one of the last `streak` days has one, the day before
\* them has none (so the streak is 0 when today has none).
C15_StreakIsConsecutiveDays ==
    Settled =>
        LET today   == ISODate(clock.day, clock.hour, clock.zone)
            done(d) == \E i \in 1..Len(tasks) : tasks[i].date = d /\ tasks[i].completed
        IN  /\ \A k \in 0..(streak - 1) : done(today - k)
            /\ ~done(today - streak)

\* C16: whenever a change of the task collection (create, update, delete,
\* toggleComplete, load) has been processed, the displayed streak and the
\* stored streak are the streak computed from the task collection and the
\* day as they are then.
C16_StreakFollowsTasks ==
    [][ (~Settled /\ Settled') =>
          /\ streak' = calculateStreak(tasks', clock')
          /\ storage'.streak = JSONstringify(streak') ]_vars

\* on the second day a streak of two days is displayed and stored
C16_TwoDayStreak ==
    /\ Settled
    /\ clock.day = 2
    /\ streak = 2
    /\ storage.streak = JSONstringify(2)

---------------------------------------------------------------------------
(* Properties of the focus queue (QueueSpec) *)

\* C17: the focus queue holds exactly the tasks dated today that are not
\* completed, by priority urgent, high, medium, low and, within one priority,
\* in store order; Next Up is its first element, Upcoming its next three at
\* most; and once the Next Up card was toggled, that task is out of the
\* queue and the task that stood second is Next Up.
C17_FocusQueue ==
    view.mode = "focus" =>
        LET queue == view.todayTasks
            rank  == [urgent |-> 1, high |-> 2, medium |-> 3, low |-> 4]
            due   == {i \in 1..Len(tasks) : tasks[i].date = Today /\ ~tasks[i].completed}
            ahead(i, j) == \/ rank[tasks[i].priority] < rank[tasks[j].priority]
                           \/ tasks[i].priority = tasks[j].priority /\ i < j
            place(i) == 1 + Cardinality({j \in due : ahead(j, i)})
        IN  /\ Len(queue) = Cardinality(due)
            /\ \A i \in due : queue[place(i)] = tasks[i]
            /\ view.nextUp = IF queue = <<>> THEN <<>> ELSE <<Head(queue)>>
            /\ Len(view.upcoming) <= 3
            /\ Len(view.upcoming) = IF Len(queue) > 4 THEN 3
                                    ELSE IF queue = <<>> THEN 0 ELSE Len(queue) - 1
            /\ \A k \in 1..Len(view.upcoming) : view.upcoming[k] = queue[k + 1]
            /\ storeOp.op = "nextUp" =>
                  /\ storeOp.id \notin Ids(queue)
                  /\ storeOp.second = [n \in 1..Len(view.nextUp) |-> view.nextUp[n].id]

\* the Next Up card was toggled over a queue of five in which the sort moved
\* a later urgent task before an earlier low one and kept two tasks of one
\* priority in store order; four tasks remain, three of them under Upcoming
C17_NextUpToggled ==
    /\ storeOp.op = "nextUp"
    /\ Len(view.todayTasks) = 4
    /\ Len(view.upcoming) = 3
    /\ view.todayTasks[1].priority = view.todayTasks[2].priority
    /\ \E i, j \in 1..Len(tasks) :
          /\ i < j
          /\ tasks[i].priority = "low" /\ tasks[i] = view.todayTasks[4]
          /\ tasks[j].priority = "urgent" /\ tasks[j] = view.todayTasks[1]

---------------------------------------------------------------------------
(* Properties of the calendar's day cells (LoadSpec) *)

\* C18: the load of every day is urgent if a task of the day is urgent, else
\* high if at least 2 tasks of the day are high, else medium if the day has
\* more than 3 tasks, else low if it has a task, else none; whether a task
\* is completed plays no part.
C18_LoadByFirstRule ==
    view.mode = "calendar" =>
        \A d \in Days :
            LET day      == {i \in 1..Len(tasks) : tasks[i].date = d}
                with(p)  == Cardinality({i \in day : tasks[i].priority = p})
                expected == CASE with("urgent") >= 1     -> "urgent"
                              [] with("urgent") = 0 /\ with("high") >= 2 -> "high"
                              [] with("urgent") = 0 /\ with("high") < 2
                                   /\ Cardinality(day) > 3 -> "medium"
                              [] with("urgent") = 0 /\ with("high") < 2
                                   /\ Cardinality(day) \in 1..3 -> "low"
                              [] Cardinality(day) = 0 -> "none"
            IN  view.cells[d].taskLoad = expected

\* a card was toggled, and day 1 holds four tasks, one high and some
\* completed, none urgent: its load is medium, while day 2 is empty
C18_FourTasksMedium ==
    /\ storeOp.op = "cell"
    /\ Len(view.cells[1].tasks) = 4
    /\ view.cells[1].taskLoad = "medium"
    /\ view.cells[2].taskLoad = "none"
    /\ \E i, j \in 1..Len(tasks) : /\ tasks[i].priority = "high"
                                     /\ tasks[j].completed

---------------------------------------------------------------------------
(* Properties of the list (OrderSpec, ListSpec) *)

\* C19: the list is in ascending order of date; within one date every task
\* with a time stands before every task without one, and the timed tasks
\* are in ascending order of time; tasks of one date that have the same time
\* or both none stand in store order; and A(09:00), B(no time), C(08:00) of
\* one date, stored in that order, are listed C, A, B.
C19_ListOrder ==
    view.mode = "list" =>
        LET rows     == view.filteredTasks
            stored(t) == CHOOSE i \in 1..Len(tasks) : tasks[i].id = t.id
        IN  /\ \A k, l \in 1..Len(rows) :
                  k < l =>
                    /\ rows[k].date <= rows[l].date
                    /\ rows[k].date = rows[l].date =>
                          /\ rows[l].time # <<>> => rows[k].time # <<>>
                          /\ (rows[k].time # <<>> /\ rows[l].time # <<>>) =>
                                rows[k].time[1] <= rows[l].time[1]
                          /\ rows[k].time = rows[l].time =>
                                stored(rows[k]) < stored(rows[l])
            /\ ( /\ Len(rows) = 3
                 /\ Len(tasks) = 3
                 /\ tasks[1].date = tasks[2].date /\ tasks[2].date = tasks[3].date
                 /\ tasks[1].time = <<9>> /\ tasks[2].time = <<>> /\ tasks[3].time = <<8>> )
                => rows = <<tasks[3], tasks[1], tasks[2]>>
            /\ \A n \in 1..Len(view.groupedDates) :
                  /\ n > 1 => view.groupedDates[n - 1] < view.groupedDates[n]
                  /\ view.tasksByDate[view.groupedDates[n]] =
                        SelectSeq(rows, LAMBDA t: t.date = view.groupedDates[n])
            /\ {view.groupedDates[n] : n \in 1..Len(view.groupedDates)} =
                  {rows[k].date : k \in 1..Len(rows)}

\* A(09:00), B(no time), C(08:00) of day 2 are stored in that order and the
\* "From" filter was set to day 2: the list is C, A, B
C19_ThreeOfOneDate ==
    /\ view.mode = "list"
    /\ startDate = <<2>>
    /\ Len(tasks) = 3
    /\ \A i \in 1..3 : tasks[i].date = 2
    /\ tasks[1].time = <<9>> /\ tasks[2].time = <<>> /\ tasks[3].time = <<8>>
    /\ view.filteredTasks = <<tasks[3], tasks[1], tasks[2]>>

\* C20: the list holds exactly the tasks whose date is not before startDate
\* (if set) and not after endDate (if set) and, unless the query is blank,
\* whose lower-cased title or description contains the lower-cased query;
\* with the filters cleared it holds every task of the store.
C20_ListFilter ==
    view.mode = "list" =>
        LET rows  == view.filteredTasks
            blank == \A n \in 1..Len(searchQuery) : searchQuery[n] = " "
            found(text) == includes(toLowerCase(text), toLowerCase(searchQuery))
            passes(t) == /\ startDate = <<>> \/ t.date >= startDate[1]
                         /\ endDate = <<>> \/ t.date <= endDate[1]
                         /\ blank \/ found(t.title) \/ found(t.description)
            due == {i \in 1..Len(tasks) : passes(tasks[i])}
        IN  /\ Len(rows) = Cardinality(due)
            /\ {rows[k] : k \in 1..Len(rows)} = {tasks[i] : i \in due}
            /\ (startDate = <<>> /\ endDate = <<>> /\ searchQuery = <<>>) =>
                  {rows[k] : k \in 1..Len(rows)} = {tasks[i] : i \in 1..Len(tasks)}

\* both bounds are day 2 and the query is "AB": of three tasks the list
\* holds the one of day 2 titled "Ab", not the one of day 1 and not the one
\* of day 2 whose texts lack "ab"
C20_RangeAndQuery ==
    /\ view.mode = "list"
    /\ startDate = <<2>>
    /\ endDate = <<2>>
    /\ searchQuery = <<"A", "B">>
    /\ Len(tasks) = 3
    /\ Len(view.filteredTasks) = 1
    /\ view.filteredTasks[1].date = 2
    /\ view.filteredTasks[1].title = <<"A", "b">>
    /\ \E i, j \in 1..3 : /\ tasks[i].date = 1 /\ tasks[i].title = <<"A", "b">>
                            /\ tasks[j].date = 2 /\ tasks[j].title = <<"b", "a">>
                            /\ tasks[j].description = <<>>

---------------------------------------------------------------------------
(* Properties of the day view (DaySpec) *)

\* C21: of the tasks of the selected day, the scheduled group holds exactly
\* those with a time, in ascending order of time, the all-day group exactly
\* those without, in store order, the urgent and the high group exactly the
\* incomplete ones of that priority; every task of the day is in exactly one
\* of scheduled and all-day, and an incomplete urgent task with a time is in
\* the urgent and in the scheduled group.
C21_DayGroups ==
    view.mode = "day" =>
        LET day       == {i \in 1..Len(tasks) : tasks[i].date = view.dateStr}
            of(group) == {i \in day : \E k \in 1..Len(group) : group[k] = tasks[i]}
            stored(t) == CHOOSE i \in 1..Len(tasks) : tasks[i].id = t.id
        IN  /\ of(view.tasksWithTime) = {i \in day : tasks[i].time # <<>>}
            /\ Len(view.tasksWithTime) = Cardinality({i \in day : tasks[i].time # <<>>})
            /\ \A k, l \in 1..Len(view.tasksWithTime) :
                  k < l => view.tasksWithTime[k].time[1] <= view.tasksWithTime[l].time[1]
            /\ of(view.tasksWithoutTime) = {i \in day : tasks[i].time = <<>>}
            /\ Len(view.tasksWithoutTime) = Cardinality({i \in day : tasks[i].time = <<>>})
            /\ \A k, l \in 1..Len(view.tasksWithoutTime) :
                  k < l => stored(view.tasksWithoutTime[k]) < stored(view.tasksWithoutTime[l])
            /\ of(view.urgentTasks) =
                  {i \in day : tasks[i].priority = "urgent" /\ ~tasks[i].completed}
            /\ Len(view.urgentTasks) = Cardinality(of(view.urgentTasks))
            /\ of(view.highTasks) =
                  {i \in day : tasks[i].priority = "high" /\ ~tasks[i].completed}
            /\ Len(view.highTasks) = Cardinality(of(view.highTasks))
            /\ \A i \in day : (i \in of(view.tasksWithTime)) # (i \in of(view.tasksWithoutTime))
            /\ \A i \in day :
                  (tasks[i].priority = "urgent" /\ ~tasks[i].completed /\ tasks[i].time # <<>>)
                    => i \in of(view.urgentTasks) \cap of(view.tasksWithTime)

\* a card was toggled on day 1: an incomplete urgent task of 09:00 stands in
\* the urgent group and, behind a completed urgent task of 08:00 stored after
\* it, in the scheduled group
C21_UrgentAndScheduled ==
    /\ view.mode = "day"
    /\ storeOp.op = "card"
    /\ Len(tasks) = 2
    /\ tasks[1].priority = "urgent" /\ tasks[1].time = <<9>> /\ ~tasks[1].completed
    /\ tasks[2].priority = "urgent" /\ tasks[2].time = <<8>> /\ tasks[2].completed
    /\ view.urgentTasks = <<tasks[1]>>
    /\ view.tasksWithTime = <<tasks[2], tasks[1]>>
    /\ view.tasksWithoutTime = <<>>

---------------------------------------------------------------------------
(* Properties of the date keys (KeySpec) *)

\* C22: in every time zone the key of the cell numbered d is the date of
\* day d, the key of today is the local day of the clock, and the key of
\* the day view is the local day of the selected date.
C22_LocalDateKeys ==
    /\ Today = clock.day
    /\ view.mode = "calendar" => \A d \in DOMAIN view.cells : view.cells[d].dateStr = d
    /\ view.mode = "day" => view.dateStr = view.selectedDate.day

---------------------------------------------------------------------------
(* Properties of the month grid (GridSpec) *)

---------------------------------------------------------------------------
(* Properties of the dependencies picked in the task modal (LinkSpec) *)

\* C25: after any sequence of creations and edits saved through the task
\* modal, with deletes in between, no task's dependencies contain the
\* task's own id.
C25_NoSelfDependency ==
    \A i \in 1..Len(tasks) : tasks[i].id \notin tasks[i].dependencies

---------------------------------------------------------------------------
(* Properties of the task modal (ModalSpec) *)

\* C24: a save of the modal with a blank title (empty or only blanks) or an
\* empty date changes no task and leaves the modal open; and after every
\* step of modal saves, drops, toggles and deletes from the empty store each
\* task has a title that is not blank and a date that is not empty.
C24_BlankSaveRejected ==
    [][ /\ ( /\ storeOp'.op = "save"
             /\ modal.open
             /\ (trim(modal.title) = <<>> \/ modal.date = <<>>) )
             => (tasks' = tasks /\ modal' = modal)
        /\ \A i \in 1..Len(tasks') :
              /\ trim(tasks'[i].title) # <<>>
              /\ tasks'[i].date # NoDate ]_vars

\* a save with a title of one blank was turned down over a store that holds
\* a task saved before
C24_BlankTitleTurnedDown ==
    /\ storeOp.op = "save"
    /\ storeOp.toast = "Please enter a task title"
    /\ modal.open
    /\ modal.title = <<" ">>
    /\ modal.date # <<>>
    /\ Len(tasks) > 0

\* C30: a save of the modal that edits task t keeps every task's id,
\* createdAt and position and leaves every completed flag, t's included, as
\* the store holds it at the moment of the save, also when t was toggled
\* after the modal was opened for it; a save that creates a task appends it
\* with completed = false.
C30_SaveKeepsCompleted ==
    [][ (storeOp'.op = "save" /\ modal.open /\ ~modal'.open) =>
          IF modal.task # <<>>
            THEN /\ Len(tasks') = Len(tasks)
                 /\ \A i \in 1..Len(tasks) :
                       /\ tasks'[i].id = tasks[i].id
                       /\ tasks'[i].createdAt = tasks[i].createdAt
                       /\ tasks'[i].completed = tasks[i].completed
            ELSE /\ Len(tasks') = Len(tasks) + 1
                 /\ SubSeq(tasks', 1, Len(tasks)) = tasks
                 /\ ~tasks'[Len(tasks')].completed ]_vars

---------------------------------------------------------------------------
(* Properties of the derived views (RenderSpec) *)

---------------------------------------------------------------------------
(* Properties of the completed-pomodoro counter (TimerSpec) *)

\* C27: in every step of start/pause, reset, skip, tick and the effect the
\* counter of completed pomodoros grows by exactly 1 when the phase changes
\* from Focus to Break in that step and keeps its value otherwise, so it
\* never decreases and always equals the number of changes from Focus to
\* Break so far (the phases alternate from Focus, so that number is half
\* of all phase changes, rounded up).
C27_CounterCountsFocusEnds ==
    [][ /\ completedPomodoros' = IF ~isBreak /\ isBreak'
                                   THEN completedPomodoros + 1
                                   ELSE completedPomodoros
        /\ completedPomodoros' = (phaseChanges' + 1) \div 2 ]_vars

\* the second Focus phase has ended by a skip pressed while paused: two
\* pomodoros counted after three phase changes
C27_SecondFocusSkipped ==
    /\ completedPomodoros = 2
    /\ phaseChanges = 3
    /\ isBreak
    /\ ~isRunning
    /\ pomodoroTime = BreakSeconds
    /\ run = "spoiled"

\* C28: in every reachable state of the timer the remaining seconds are
\* between 0 and the full duration of the phase, 1500 in Focus and 300 in
\* Break; they are never negative.
C28_RemainingInRange ==
    /\ pomodoroTime \in Int
    /\ 0 <= pomodoroTime
    /\ pomodoroTime <= FullDuration(isBreak)

---------------------------------------------------------------------------
(* Properties of the streak walk (StreakSpec) *)

\* C29: the streak computed from the task collection is at most the number
\* of distinct dates that carry at least one completed task.
C29_StreakAtMostCompletedDates ==
    calculateStreak(tasks, clock) <=
        Cardinality({tasks[i].date : i \in {j \in 1..Len(tasks) : tasks[j].completed}})

===========================================================================
